-------------------------- MODULE ReleaseWorkflow --------------------------
(***************************************************************************)
(* The release workflow (.github/workflows/release.yml) and its tool       *)
(* (ci/release.py): each tag that is pushed starts a run, whose jobs work  *)
(* on the tag's commit, except the release job: it works on main, where    *)
(* index.json is, while main moves on.                                     *)
(*                                                                         *)
(* Versions are numbered in the order of their release, and the tag of a   *)
(* version is its number.                                                  *)
(***************************************************************************)
EXTENDS Naturals, FiniteSets

CONSTANTS
    MaxVersion,
    MaxCommits,     \* bound: with that many, main gets no other commits
    MaxFaults       \* bound: jobs that fail for a reason of their own

ASSUME BoundsAssumption == MaxVersion \in Nat \ {0} /\ MaxCommits \in Nat /\ MaxFaults \in Nat

Tags == 1..MaxVersion

VARIABLES
    main,       \* main: its head, the version in Cargo.toml, and index.json
    tagged,     \* the version in Cargo.toml at each tag; 0: no such tag
    gate,       \* the meta and build jobs of each tag's run
    job,        \* its release job
    tree,       \* what the release job that is running has checked out
    manifest,   \* the version in each GitHub Release's manifest; 0: none
    image,      \* the version of the plugin in each versioned image; 0: none
    slim,       \* the version of the image that :slim names; 0: none
    faults,
    overlapped, \* history: a tag came before the runs of older ones had ended
    ahead       \* history: a tag was of a later version than main was then
historyVars == <<overlapped, ahead>>
vars == <<main, tagged, gate, job, tree, manifest, image, slim, faults, historyVars>>

Init ==
    /\ main = [head |-> 0, version |-> 1, entries |-> {}, latest |-> 0]
    /\ tagged = [t \in Tags |-> 0]
    /\ gate = [t \in Tags |-> "waiting"]
    /\ job = [t \in Tags |-> "waiting"]
    /\ tree = main
    /\ manifest = [t \in Tags |-> 0]
    /\ image = [t \in Tags |-> 0]
    /\ slim = 0
    /\ faults = 0
    /\ overlapped = FALSE
    /\ ahead = FALSE

Working(t) ==
    /\ tagged[t] # 0
    /\ gate[t] # "failed"
    /\ image[t] = 0 \/ job[t] \in {"waiting", "pending", "running", "created"}

---------------------------------------------------------------------------
(* The developers. *)

(* A commit on main, of any version: one may also go back.                 *)
CommitToMain ==
    /\ main.head < MaxCommits
    /\ \E v \in Tags :
        /\ main' = [main EXCEPT !.head = @ + 1, !.version = v]
        /\ ahead' = (ahead \/ \E t \in Tags : tagged[t] > v)
    /\ UNCHANGED <<tagged, gate, job, tree, manifest, image, slim, faults, overlapped>>

(* A tag is pushed, rightly or with another version's name, in any order,  *)
(* and on any commit: of main or of a branch, which may be ahead of main.  *)
PushTag(t) ==
    /\ tagged[t] = 0
    /\ \E v \in Tags :
        /\ tagged' = [tagged EXCEPT ![t] = v]
        /\ ahead' = (ahead \/ v > main.version)
    /\ overlapped' = (overlapped \/ \E u \in Tags : Working(u) \/ (u > t /\ tagged[u] # 0))
    /\ UNCHANGED <<main, gate, job, tree, manifest, image, slim, faults>>

---------------------------------------------------------------------------
(* The jobs on the tag's commit. *)

(* Mutant: any version may be released under any tag. *)
Unchecked(t) == TRUE

(* release.py check *)
CheckPasses(t) == tagged[t] = t

(* meta and build, in which the tests may fail. *)
Gate(t) ==
    /\ tagged[t] # 0 /\ gate[t] = "waiting"
    /\ \/ /\ CheckPasses(t)
          /\ gate' = [gate EXCEPT ![t] = "passed"]
          /\ UNCHANGED faults
       \/ /\ ~CheckPasses(t)
          /\ gate' = [gate EXCEPT ![t] = "failed"]
          /\ UNCHANGED faults
       \/ /\ faults < MaxFaults
          /\ gate' = [gate EXCEPT ![t] = "failed"]
          /\ faults' = faults + 1
    /\ UNCHANGED <<main, tagged, job, tree, manifest, image, slim, historyVars>>

(* Mutant: :slim is pushed with the first image only. *)
SlimOnce(t) == IF slim = 0 THEN t ELSE slim

(* :slim is the image that was pushed last. *)
SlimPushed(t) == t

(* The image with that version's binaries, under two tags of its own. *)
PushImage(t) ==
    /\ gate[t] = "passed" /\ image[t] = 0
    /\ image' = [image EXCEPT ![t] = tagged[t]]
    /\ slim' = SlimPushed(t)
    /\ UNCHANGED <<main, tagged, gate, job, tree, manifest, faults, historyVars>>

---------------------------------------------------------------------------
(* The release job.  "concurrency: index-commit" lets one run, and one     *)
(* wait, which is cancelled when another comes to wait.                    *)

Queue(t) ==
    /\ gate[t] = "passed" /\ job[t] = "waiting"
    /\ job' = [u \in Tags |-> IF u = t THEN "pending"
                              ELSE IF job[u] = "pending" THEN "cancelled" ELSE job[u]]
    /\ UNCHANGED <<main, tagged, gate, tree, manifest, image, slim, faults, historyVars>>

Start(t) ==
    /\ job[t] = "pending"
    /\ \A u \in Tags : job[u] \notin {"running", "created"}
    /\ job' = [job EXCEPT ![t] = "running"]
    /\ tree' = main
    /\ UNCHANGED <<main, tagged, gate, manifest, image, slim, faults, historyVars>>

(* The manifest is generated, and published in a GitHub Release; gh        *)
(* release create fails if there is one of that tag.                       *)
CreateRelease(t) ==
    /\ job[t] = "running"
    /\ IF manifest[t] = 0
       THEN /\ manifest' = [manifest EXCEPT ![t] = tree.version]
            /\ job' = [job EXCEPT ![t] = "created"]
       ELSE /\ job' = [job EXCEPT ![t] = "failed"]
            /\ UNCHANGED manifest
    /\ UNCHANGED <<main, tagged, gate, tree, image, slim, faults, historyVars>>

(* Mutant: latest is set with the first entry only. *)
FirstIsLatest(t) ==
    [tree EXCEPT !.head = @ + 1, !.entries = @ \cup {t}, !.latest = IF @ = 0 THEN t ELSE @]

(* release.py index, in a commit on the tree that was checked out. *)
IndexCommit(t) ==
    [tree EXCEPT !.head = @ + 1, !.entries = @ \cup {t}, !.latest = t]

(* Mutant: the push is forced. *)
AlwaysAccepted == TRUE

(* git push: main is where it was when it was checked out. *)
PushAccepted == main.head = tree.head

UpdateIndex(t) ==
    /\ job[t] = "created"
    /\ IF PushAccepted
       THEN /\ main' = IndexCommit(t)
            /\ job' = [job EXCEPT ![t] = "done"]
       ELSE /\ job' = [job EXCEPT ![t] = "failed"]
            /\ UNCHANGED main
    /\ UNCHANGED <<tagged, gate, tree, manifest, image, slim, faults, historyVars>>

(* The runner, the network or GitHub. *)
JobFails(t) ==
    /\ job[t] \in {"running", "created"} /\ faults < MaxFaults
    /\ job' = [job EXCEPT ![t] = "failed"]
    /\ faults' = faults + 1
    /\ UNCHANGED <<main, tagged, gate, tree, manifest, image, slim, historyVars>>

(* "Re-run failed jobs". *)
Rerun(t) ==
    /\ job[t] \in {"failed", "cancelled"}
    /\ job' = [job EXCEPT ![t] = "waiting"]
    /\ overlapped' = (overlapped \/ \E u \in Tags : u > t /\ tagged[u] # 0)
    /\ UNCHANGED <<main, tagged, gate, tree, manifest, image, slim, faults, ahead>>

ReleaseJob(t) == Queue(t) \/ Start(t) \/ CreateRelease(t) \/ UpdateIndex(t)

Next ==
    \/ CommitToMain
    \/ \E t \in Tags :
        \/ PushTag(t)
        \/ Gate(t)
        \/ PushImage(t)
        \/ ReleaseJob(t)
        \/ JobFails(t)
        \/ Rerun(t)

Spec == Init /\ [][Next]_vars

(* GitHub schedules the jobs, and somebody runs those again that failed.   *)
Fairness == \A t \in Tags : WF_vars(Gate(t)) /\ SF_vars(ReleaseJob(t)) /\ WF_vars(Rerun(t))

FairSpec == Spec /\ Fairness

---------------------------------------------------------------------------
(* Properties. *)

(* What `loadsmith install` finds in the index has been published, under   *)
(* that tag, with binaries of that version: meta checked the tag, whatever *)
(* main holds by now.  So has every versioned image.                       *)
IndexNamesReleases ==
    /\ \A t \in main.entries : manifest[t] # 0 /\ tagged[t] = t
    /\ \A t \in Tags : image[t] # 0 => image[t] = t

(* Whatever release jobs and developers push meanwhile, main only gets one *)
(* commit further at a time: none is lost, no entry of the index, and no   *)
(* version that developers have set by what a job had checked out before.  *)
EntriesStay ==
    [][/\ main.entries \subseteq main'.entries
       /\ main' # main => main'.head = main.head + 1
       /\ main'.entries # main.entries => main'.version = main.version]_vars

(* latest is the newest version in the index, as long as tags were pushed  *)
(* in order, each after the runs of those before it, and only the newest   *)
(* was run again.                                                          *)
LatestIsNewest ==
    ~overlapped => \A t \in main.entries : t <= main.latest

(* :slim is the newest image, under the same condition: the image jobs are *)
(* in no concurrency group, so that of an older tag may be the slower one. *)
SlimIsNewest ==
    ~overlapped => \A t \in Tags : image[t] # 0 => t <= slim

(* "Tag oracle-v<version> (matching connector/Cargo.toml)", which is       *)
(* checked of the tag's commit, while the manifest is made from main: it   *)
(* may have a later version than its tag; but never an earlier one, if no  *)
(* tag was ever ahead of main: pushed before main was, or on a branch that *)
(* main does not have yet, or ahead since main went back.                  *)
ManifestNotOlder ==
    ~ahead => \A t \in Tags : manifest[t] # 0 => manifest[t] >= t

(* "publish a GitHub Release and update index.json": a version that is     *)
(* released can be installed by the index in the end.                      *)
ReleasedIsIndexed == \A t \in Tags : manifest[t] # 0 ~> t \in main.entries
=============================================================================
