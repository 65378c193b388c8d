--------------------------- MODULE ConnectConfig ---------------------------
(***************************************************************************)
(* How a plugin gets its Oracle session (connector/src/conn.rs): the       *)
(* connect timeout is parsed, the descriptor is built from the settings,   *)
(* the session is opened with it, and then pinned.                         *)
(***************************************************************************)
EXTENDS Integers

CONSTANTS
    U64,        \* how many values a u64 has
    Builds,     \* a subset of {"debug", "release"}
    Timeouts,   \* settings of connect_timeout: [number, unit], or None
    None        \* a setting that is not there

ASSUME U64Assumption == U64 \in Nat \ {0}
ASSUME TimeoutsAssumption ==
    \A t \in Timeouts \ {None} : t.number \in Nat

VARIABLES
    build,
    timeout,    \* connect_timeout, or None
    named,      \* those of service_name and sid that are set
    tls,        \* the tls block, or None
    pc,
    descriptor, \* the descriptor, once it is built
    session     \* "none", "raw" as the environment makes it, or "pinned"
settings == <<build, timeout, named, tls>>
vars == <<settings, pc, descriptor, session>>

TlsBlocks ==
    [enabled : BOOLEAN, server_dn_match : BOOLEAN, distinguished_name : BOOLEAN,
     wallet_dir : BOOLEAN]

Init ==
    /\ build \in Builds
    /\ timeout \in Timeouts
    /\ named \in SUBSET {"SERVICE_NAME", "SID"}
    /\ tls \in TlsBlocks \cup {None}
    /\ pc = "configured"
    /\ descriptor = None
    /\ session = "none"

---------------------------------------------------------------------------
(* The numbers. *)

SecondsIn(unit) ==
    CASE unit = "s" -> 1 [] unit = "m" -> 60 [] unit = "h" -> 3600 [] unit = "d" -> 86400

(* The suffix is known, and the number before it is a u64. *)
IsDuration(t) ==
    t.unit \in {"ms", "s", "m", "h", "d"} /\ t.number \in 0..(U64 - 1)

(* Multiplied in u64: a debug build panics where a release build wraps.    *)
Overflows(t) == t.unit # "ms" /\ t.number * SecondsIn(t.unit) >= U64

(* Mutant: milliseconds are taken for seconds. *)
MillisAreSeconds(t) ==
    IF t.unit = "ms" THEN t.number ELSE (t.number * SecondsIn(t.unit)) % U64

(* Duration::as_secs of what parse_duration returns. *)
ParseDuration(t) ==
    IF t.unit = "ms" THEN t.number \div 1000
    ELSE (t.number * SecondsIn(t.unit)) % U64

(* Mutant: the seconds are taken as they are. *)
Unbounded(t) == IF t = None THEN 10 ELSE ParseDuration(t)

ConnectTimeout(t) ==
    IF t = None THEN 10
    ELSE IF ParseDuration(t) = 0 THEN 1 ELSE ParseDuration(t)

---------------------------------------------------------------------------
TlsOn == tls # None /\ tls.enabled

(* What the SECURITY section says; it is there with TLS only. *)
Security ==
    IF TlsOn
    THEN [dn_match |-> tls.server_dn_match, cert_dn |-> tls.distinguished_name,
          wallet |-> tls.wallet_dir]
    ELSE None

BuildDescriptor ==
    /\ pc = "configured"
    /\ named # {}
    /\ timeout # None =>
           IsDuration(timeout) /\ (build = "debug" => ~Overflows(timeout))
    /\ pc' = "described"
    /\ descriptor' =
        [connect |-> IF "SERVICE_NAME" \in named THEN "SERVICE_NAME" ELSE "SID",
         protocol |-> IF TlsOn THEN "TCPS" ELSE "TCP",
         timeout |-> ConnectTimeout(timeout),
         security |-> Security]
    /\ UNCHANGED <<settings, session>>

(* Neither service_name nor sid, or a connect_timeout that is none. *)
BuildDescriptorFails ==
    /\ pc = "configured"
    /\ named = {} \/ (timeout # None /\ ~IsDuration(timeout))
    /\ pc' = "failed"
    /\ UNCHANGED <<settings, descriptor, session>>

(* attempt to multiply with overflow *)
Panic ==
    /\ pc = "configured"
    /\ build = "debug" /\ named # {}
    /\ timeout # None /\ IsDuration(timeout) /\ Overflows(timeout)
    /\ pc' = "panicked"
    /\ UNCHANGED <<settings, descriptor, session>>

Connect ==
    /\ pc = "described"
    /\ \/ pc' = "connected" /\ session' = "raw"
       \/ pc' = "failed" /\ UNCHANGED session
    /\ UNCHANGED <<settings, descriptor>>

(* ALTER SESSION SET NLS_NUMERIC_CHARACTERS *)
Pin ==
    /\ pc = "connected"
    /\ pc' = "in use"
    /\ session' = "pinned"
    /\ UNCHANGED <<settings, descriptor>>

(* Mutant: an error of the ALTER SESSION is ignored. *)
PinIgnored ==
    /\ pc = "connected"
    /\ pc' = "in use"
    /\ UNCHANGED <<settings, descriptor, session>>

(* It fails: conn is dropped, and its session with it. *)
PinFails ==
    /\ pc = "connected"
    /\ pc' = "failed"
    /\ session' = "none"
    /\ UNCHANGED <<settings, descriptor>>

Next ==
    \/ BuildDescriptor
    \/ BuildDescriptorFails
    \/ Panic
    \/ Connect
    \/ Pin
    \/ PinFails

Spec == Init /\ [][Next]_vars

---------------------------------------------------------------------------
(* Properties. *)

(* connect: "pin the decimal/group characters on every session".  A plugin *)
(* that has a session has a pinned one, and one that has failed has none.  *)
SessionsArePinned ==
    /\ pc = "in use" => session = "pinned"
    /\ pc \in {"failed", "panicked"} => session = "none"

Milliseconds(t) == t.number * (IF t.unit = "ms" THEN 1 ELSE 1000 * SecondsIn(t.unit))

(* "Connection establishment timeout": the descriptor waits for what the   *)
(* setting says, to the second, unless its multiplication wraps.  Less     *)
(* than a second becomes one, and "1500ms" too.                            *)
TimeoutAsWritten ==
    descriptor # None /\ timeout # None =>
        \/ Overflows(timeout)
        \/ descriptor.timeout * 1000 - Milliseconds(timeout) \in -999..1000

(* The wait is bounded by the setting, whatever it is: no rounding, and no *)
(* multiplication that wraps in a release build, makes connecting wait     *)
(* longer than was written (but for the second that is the least there     *)
(* is), nor without limit, which CONNECT_TIMEOUT=0 would mean.             *)
WaitsNoLonger ==
    descriptor # None /\ timeout # None =>
        /\ descriptor.timeout >= 1
        /\ \/ descriptor.timeout = 1
           \/ timeout.unit = "ms" /\ descriptor.timeout * 1000 <= timeout.number
           \/ /\ timeout.unit # "ms"
              /\ descriptor.timeout <= timeout.number * SecondsIn(timeout.unit)
=============================================================================
