----------------------- MODULE ReleaseWorkflowProofs -----------------------
(***************************************************************************)
(* Proofs about ReleaseWorkflow, for any number of versions, commits on    *)
(* main, failing jobs and runs of a job.                                   *)
(***************************************************************************)
EXTENDS ReleaseWorkflow, TLAPS

Jobs == {"waiting", "pending", "running", "created", "done", "failed", "cancelled"}
Active == {"waiting", "pending", "running", "created"}

Trees == [head : Nat, version : Tags, entries : SUBSET Tags, latest : Nat]

TypesKept ==
    /\ main \in Trees /\ tree \in Trees
    /\ tagged \in [Tags -> Nat]
    /\ gate \in [Tags -> {"waiting", "passed", "failed"}]
    /\ job \in [Tags -> Jobs]
    /\ manifest \in [Tags -> Nat]
    /\ image \in [Tags -> Nat]
    /\ slim \in Nat

(* A release job only works behind a tag that was checked, and updates the *)
(* index behind a release that was created.                                *)
JobsInOrder ==
    \A t \in Tags :
        /\ gate[t] = "passed" => tagged[t] = t
        /\ job[t] # "waiting" => gate[t] = "passed"
        /\ job[t] = "created" => manifest[t] # 0
        /\ image[t] # 0 => image[t] = t /\ tagged[t] = t
        /\ t \in main.entries => manifest[t] # 0 /\ tagged[t] = t

(* What a job has checked out is main, or main has moved on since.         *)
TreeIsBehind ==
    /\ tree.head <= main.head
    /\ tree.head = main.head => tree = main
    /\ tree.entries \subseteq main.entries

(* If no tag is ahead of main, versions only rise from the tags' commits   *)
(* to what a job checks out.                                               *)
VersionsRise ==
    ~ahead =>
        /\ \A t \in Tags : tagged[t] <= main.version
        /\ \A t \in Tags : job[t] = "running" => t <= tree.version
        /\ \A t \in Tags : manifest[t] # 0 => manifest[t] >= t

(* Without overlap, a job at work, of either kind, is that of the newest   *)
(* tag.                                                                    *)
NewestWorks ==
    ~overlapped =>
        \A t \in Tags :
            tagged[t] # 0 /\ gate[t] # "failed" /\ (job[t] \in Active \/ image[t] = 0) =>
                \A u \in Tags : u > t => tagged[u] = 0

IInv ==
    /\ TypesKept /\ JobsInOrder /\ TreeIsBehind /\ VersionsRise /\ NewestWorks
    /\ LatestIsNewest /\ SlimIsNewest

LEMMA TagsAreNumbers == \A t \in Tags : t \in Nat /\ t > 0
  BY BoundsAssumption DEF Tags

LEMMA CommitOnTree ==
  ASSUME NEW c \in Trees, NEW t \in Tags
  PROVE  LET pushed == [c EXCEPT !.head = @ + 1, !.entries = @ \cup {t}, !.latest = t]
         IN  /\ pushed \in Trees
             /\ pushed.head = c.head + 1
             /\ pushed.entries = c.entries \cup {t}
             /\ pushed.latest = t
             /\ pushed.version = c.version
<1>1. c = [head |-> c.head, version |-> c.version, entries |-> c.entries, latest |-> c.latest]
  BY DEF Trees
<1>2. /\ c.head + 1 \in Nat /\ c.version \in Tags /\ t \in Nat
      /\ c.entries \cup {t} \in SUBSET Tags
  BY TagsAreNumbers DEF Trees
<1> QED
  BY <1>1, <1>2, Zenon DEF Trees

LEMMA InitHolds == Init => IInv
<1> SUFFICES ASSUME Init PROVE IInv
  OBVIOUS
<1>1. TypesKept
  BY BoundsAssumption DEF Init, TypesKept, Trees, Tags, Jobs
<1>2. VersionsRise
  BY BoundsAssumption DEF Init, VersionsRise, Tags
<1>3. JobsInOrder /\ TreeIsBehind
  BY <1>1 DEF Init, JobsInOrder, TreeIsBehind, TypesKept, Trees
<1>4. NewestWorks /\ LatestIsNewest /\ SlimIsNewest
  BY <1>1 DEF Init, NewestWorks, LatestIsNewest, SlimIsNewest
<1> QED
  BY <1>1, <1>2, <1>3, <1>4 DEF IInv

LEMMA NextKeeps == IInv /\ [Next]_vars => IInv'
<1> SUFFICES ASSUME IInv, [Next]_vars PROVE IInv'
  OBVIOUS
<1> USE DEF IInv
<1>1. CASE CommitToMain
  <2>1. TypesKept'
    <3>1. PICK v \in Tags : main' = [main EXCEPT !.head = @ + 1, !.version = v]
      BY <1>1 DEF CommitToMain
    <3>2. main' = [head |-> main.head + 1, version |-> v, entries |-> main.entries,
                   latest |-> main.latest]
      BY <3>1 DEF TypesKept, Trees
    <3>3. /\ main.head + 1 \in Nat /\ main.latest \in Nat
          /\ main.entries \in SUBSET Tags
      BY DEF TypesKept, Trees
    <3>4. main' \in Trees
      BY <3>2, <3>3 DEF Trees
    <3> QED
      BY <1>1, <3>4 DEF CommitToMain, historyVars, TypesKept
  <2>2. JobsInOrder'
    BY <1>1 DEF CommitToMain, historyVars, TypesKept, JobsInOrder, Trees
  <2>3. TreeIsBehind'
    BY <1>1 DEF CommitToMain, historyVars, TypesKept, Trees, TreeIsBehind
  <2>4. NewestWorks'
    BY <1>1 DEF CommitToMain, historyVars, TypesKept, NewestWorks
  <2>5. LatestIsNewest'
    BY <1>1 DEF CommitToMain, historyVars, TypesKept, Trees, LatestIsNewest
  <2>6. SlimIsNewest'
    BY <1>1 DEF CommitToMain, historyVars, SlimIsNewest
  <2>7. VersionsRise'
    <3>1. PICK v \in Tags :
            /\ main' = [main EXCEPT !.head = @ + 1, !.version = v]
            /\ ahead' = (ahead \/ \E u \in Tags : tagged[u] > v)
      BY <1>1 DEF CommitToMain
    <3>2. ~ahead' => ~ahead /\ \A u \in Tags : ~(tagged[u] > v)
      BY <3>1, Zenon
    <3>3. main'.version = v
      BY <3>1 DEF TypesKept, Trees
    <3> QED
      BY <1>1, <3>2, <3>3, TagsAreNumbers DEF CommitToMain, TypesKept, VersionsRise
  <2> QED
    BY <2>1, <2>2, <2>3, <2>4, <2>5, <2>6, <2>7
<1>2. ASSUME NEW t \in Tags, PushTag(t) PROVE IInv'
  <2>1. TypesKept'
    BY <1>2, TagsAreNumbers DEF PushTag, historyVars, TypesKept, Trees
  <2>2. JobsInOrder'
    <3>1. tagged[t] = 0 /\ gate[t] # "passed" /\ t \notin main.entries
      BY <1>2, TagsAreNumbers DEF PushTag, historyVars, JobsInOrder
    <3> QED
      BY <1>2, <3>1 DEF PushTag, historyVars, TypesKept, JobsInOrder
  <2>3. TreeIsBehind'
    BY <1>2 DEF PushTag, historyVars, TypesKept, Trees, TreeIsBehind
  <2>4. NewestWorks'
    <3>1. overlapped' = (overlapped \/ \E u \in Tags : Working(u) \/ (u > t /\ tagged[u] # 0))
      BY <1>2 DEF PushTag
    <3>2. ~overlapped' => /\ \A u \in Tags : ~Working(u)
                          /\ \A u \in Tags : u > t => tagged[u] = 0
      BY <3>1, Zenon
    <3> QED
      BY <1>2, <3>2, TagsAreNumbers
      DEF PushTag, historyVars, TypesKept, NewestWorks, Working, Active
  <2>5. LatestIsNewest'
    BY <1>2 DEF PushTag, historyVars, TypesKept, Trees, LatestIsNewest, Tags
  <2>6. SlimIsNewest'
    BY <1>2 DEF PushTag, historyVars, SlimIsNewest
  <2>7. VersionsRise'
    <3>1. PICK v \in Tags : /\ tagged' = [tagged EXCEPT ![t] = v]
                            /\ ahead' = (ahead \/ v > main.version)
      BY <1>2 DEF PushTag
    <3>2. ~ahead' => ~ahead /\ ~(v > main.version)
      BY <3>1, Zenon
    <3>3. main.version \in Tags
      BY DEF TypesKept, Trees
    <3> QED
      BY <1>2, <3>1, <3>2, <3>3, TagsAreNumbers DEF PushTag, TypesKept, VersionsRise
  <2> QED
    BY <2>1, <2>2, <2>3, <2>4, <2>5, <2>6, <2>7
<1>3. ASSUME NEW t \in Tags, Gate(t) PROVE IInv'
  <2>1. TypesKept'
    BY <1>3 DEF Gate, historyVars, TypesKept, Trees
  <2>2. JobsInOrder'
    BY <1>3 DEF Gate, historyVars, TypesKept, JobsInOrder, CheckPasses
  <2>3. TreeIsBehind'
    BY <1>3 DEF Gate, historyVars, TypesKept, Trees, TreeIsBehind
  <2>4. NewestWorks'
    BY <1>3 DEF Gate, historyVars, TypesKept, NewestWorks, CheckPasses
  <2>5. LatestIsNewest'
    BY <1>3 DEF Gate, historyVars, TypesKept, Trees, LatestIsNewest
  <2>6. SlimIsNewest'
    BY <1>3 DEF Gate, historyVars, SlimIsNewest
  <2>7. VersionsRise'
    BY <1>3 DEF Gate, historyVars, TypesKept, Trees, Jobs, JobsInOrder,
               VersionsRise
  <2> QED
    BY <2>1, <2>2, <2>3, <2>4, <2>5, <2>6, <2>7
<1>4. ASSUME NEW t \in Tags, PushImage(t) PROVE IInv'
  <2>1. TypesKept'
    BY <1>4, TagsAreNumbers DEF PushImage, historyVars, SlimPushed, TypesKept, Trees
  <2>2. JobsInOrder'
    BY <1>4 DEF PushImage, historyVars, TypesKept, JobsInOrder
  <2>3. TreeIsBehind'
    BY <1>4 DEF PushImage, historyVars, TypesKept, Trees, TreeIsBehind
  <2>4. NewestWorks'
    BY <1>4 DEF PushImage, historyVars, TypesKept, NewestWorks, Tags
  <2>5. LatestIsNewest'
    BY <1>4 DEF PushImage, historyVars, TypesKept, Trees, LatestIsNewest, Tags
  <2>6. SlimIsNewest'
    <3>1. tagged[t] # 0 /\ gate[t] # "failed"
      BY <1>4, TagsAreNumbers DEF PushImage, historyVars, JobsInOrder
    <3>2. ~overlapped => \A u \in Tags : u > t => tagged[u] = 0
      BY <1>4, <3>1 DEF PushImage, historyVars, NewestWorks
    <3>3. \A u \in Tags : image[u] # 0 => tagged[u] # 0
      BY TagsAreNumbers DEF JobsInOrder
    <3> QED
      BY <1>4, <3>2, <3>3, TagsAreNumbers DEF PushImage, historyVars, SlimPushed, TypesKept, SlimIsNewest
  <2>7. VersionsRise'
    BY <1>4 DEF PushImage, historyVars, TypesKept, Trees, Jobs, JobsInOrder,
               VersionsRise
  <2> QED
    BY <2>1, <2>2, <2>3, <2>4, <2>5, <2>6, <2>7
<1>5. ASSUME NEW t \in Tags, Queue(t) PROVE IInv'
  <2>1. TypesKept'
    BY <1>5 DEF Queue, historyVars, TypesKept, Trees, Jobs
  <2>2. JobsInOrder'
    BY <1>5 DEF Queue, historyVars, TypesKept, JobsInOrder
  <2>3. TreeIsBehind'
    BY <1>5 DEF Queue, historyVars, TypesKept, Trees, TreeIsBehind
  <2>4. NewestWorks'
    BY <1>5 DEF Queue, historyVars, TypesKept, NewestWorks, Active, JobsInOrder
  <2>5. LatestIsNewest'
    BY <1>5 DEF Queue, historyVars, TypesKept, Trees, LatestIsNewest
  <2>6. SlimIsNewest'
    BY <1>5 DEF Queue, historyVars, SlimIsNewest
  <2>7. VersionsRise'
    BY <1>5 DEF Queue, historyVars, TypesKept, Trees, Jobs, JobsInOrder,
               VersionsRise
  <2> QED
    BY <2>1, <2>2, <2>3, <2>4, <2>5, <2>6, <2>7
<1>6. ASSUME NEW t \in Tags, Start(t) PROVE IInv'
  <2>1. TypesKept'
    BY <1>6 DEF Start, historyVars, TypesKept, Trees, Jobs
  <2>2. JobsInOrder'
    BY <1>6 DEF Start, historyVars, TypesKept, JobsInOrder
  <2>3. TreeIsBehind'
    BY <1>6 DEF Start, historyVars, TypesKept, Trees, TreeIsBehind
  <2>4. NewestWorks'
    BY <1>6 DEF Start, historyVars, TypesKept, NewestWorks, Active, JobsInOrder
  <2>5. LatestIsNewest'
    BY <1>6 DEF Start, historyVars, TypesKept, Trees, LatestIsNewest
  <2>6. SlimIsNewest'
    BY <1>6 DEF Start, historyVars, SlimIsNewest
  <2>7. VersionsRise'
    BY <1>6, TagsAreNumbers DEF Start, historyVars, TypesKept, Trees, Jobs, JobsInOrder,
               VersionsRise
  <2> QED
    BY <2>1, <2>2, <2>3, <2>4, <2>5, <2>6, <2>7
<1>7. ASSUME NEW t \in Tags, CreateRelease(t) PROVE IInv'
  <2>1. TypesKept'
    BY <1>7, TagsAreNumbers DEF CreateRelease, historyVars, TypesKept, Trees, Jobs
  <2>2. JobsInOrder'
    BY <1>7, TagsAreNumbers DEF CreateRelease, historyVars, TypesKept, JobsInOrder, Trees
  <2>3. TreeIsBehind'
    BY <1>7 DEF CreateRelease, historyVars, TypesKept, Trees, TreeIsBehind
  <2>4. NewestWorks'
    BY <1>7 DEF CreateRelease, historyVars, TypesKept, NewestWorks, Active, Tags, JobsInOrder
  <2>5. LatestIsNewest'
    BY <1>7 DEF CreateRelease, historyVars, TypesKept, Trees, LatestIsNewest, Tags
  <2>6. SlimIsNewest'
    BY <1>7 DEF CreateRelease, historyVars, SlimIsNewest
  <2>7. VersionsRise'
    BY <1>7, TagsAreNumbers DEF CreateRelease, historyVars, TypesKept, Trees, Jobs, JobsInOrder,
               VersionsRise
  <2> QED
    BY <2>1, <2>2, <2>3, <2>4, <2>5, <2>6, <2>7
<1>8. ASSUME NEW t \in Tags, UpdateIndex(t) PROVE IInv'
  <2> DEFINE pushed == [tree EXCEPT !.head = @ + 1, !.entries = @ \cup {t}, !.latest = t]
  <2>1. /\ pushed \in Trees
        /\ pushed.head = tree.head + 1
        /\ pushed.entries = tree.entries \cup {t}
        /\ pushed.latest = t
    BY CommitOnTree DEF TypesKept
  <2>2. \/ /\ main.head = tree.head /\ main' = pushed /\ tree = main
           /\ job' = [job EXCEPT ![t] = "done"]
        \/ main' = main /\ job' = [job EXCEPT ![t] = "failed"]
    BY <1>8 DEF UpdateIndex, PushAccepted, IndexCommit, TreeIsBehind
  <2>3. /\ job[t] = "created"
        /\ UNCHANGED <<tagged, gate, tree, manifest, image, slim, faults, overlapped, ahead>>
    BY <1>8 DEF UpdateIndex, historyVars
  <2>4. tree.head \in Nat /\ main.head \in Nat
    BY DEF TypesKept, Trees
  <2> HIDE DEF pushed
  <2>5. TypesKept'
    BY <2>1, <2>2, <2>3 DEF TypesKept, Jobs
  <2>6. JobsInOrder'
    BY <2>1, <2>2, <2>3 DEF TypesKept, JobsInOrder
  <2>7. TreeIsBehind'
    BY <2>1, <2>2, <2>3, <2>4 DEF TreeIsBehind
  <2>8. NewestWorks'
    BY <2>2, <2>3 DEF TypesKept, NewestWorks, Active
  <2>9. LatestIsNewest'
    <3>1. ~overlapped => \A u \in main.entries : u <= t
      <4>1. tagged[t] # 0 /\ gate[t] # "failed"
        BY <2>3, TagsAreNumbers DEF JobsInOrder
      <4>2. ~overlapped => \A u \in Tags : u > t => tagged[u] = 0
        BY <2>3, <4>1 DEF NewestWorks, Active
      <4>3. main.entries \subseteq Tags
        BY DEF TypesKept, Trees
      <4>4. \A u \in main.entries : tagged[u] # 0
        BY <4>3, TagsAreNumbers DEF JobsInOrder
      <4> QED
        BY <4>2, <4>3, <4>4, TagsAreNumbers
    <3> QED
      BY <2>1, <2>2, <2>3, <3>1, TagsAreNumbers DEF LatestIsNewest
  <2>10. SlimIsNewest'
    BY <2>3, <1>8 DEF SlimIsNewest
  <2>11. VersionsRise'
    <3>1. pushed.version = tree.version
      BY CommitOnTree DEF pushed, TypesKept
    <3> QED
      BY <2>2, <2>3, <3>1 DEF TypesKept, VersionsRise
  <2> QED
    BY <2>5, <2>6, <2>7, <2>8, <2>9, <2>10, <2>11
<1>9. ASSUME NEW t \in Tags, JobFails(t) PROVE IInv'
  <2>1. TypesKept'
    BY <1>9 DEF JobFails, historyVars, TypesKept, Trees, Jobs
  <2>2. JobsInOrder'
    BY <1>9 DEF JobFails, historyVars, TypesKept, JobsInOrder
  <2>3. TreeIsBehind'
    BY <1>9 DEF JobFails, historyVars, TypesKept, Trees, TreeIsBehind
  <2>4. NewestWorks'
    BY <1>9 DEF JobFails, historyVars, TypesKept, NewestWorks, Active
  <2>5. LatestIsNewest'
    BY <1>9 DEF JobFails, historyVars, TypesKept, Trees, LatestIsNewest
  <2>6. SlimIsNewest'
    BY <1>9 DEF JobFails, historyVars, SlimIsNewest
  <2>7. VersionsRise'
    BY <1>9 DEF JobFails, historyVars, TypesKept, Trees, Jobs, JobsInOrder,
               VersionsRise
  <2> QED
    BY <2>1, <2>2, <2>3, <2>4, <2>5, <2>6, <2>7
<1>10. ASSUME NEW t \in Tags, Rerun(t) PROVE IInv'
  <2>1. TypesKept'
    BY <1>10 DEF Rerun, historyVars, TypesKept, Trees, Jobs
  <2>2. JobsInOrder'
    BY <1>10 DEF Rerun, historyVars, TypesKept, JobsInOrder
  <2>3. TreeIsBehind'
    BY <1>10 DEF Rerun, historyVars, TypesKept, Trees, TreeIsBehind
  <2>4. NewestWorks'
    BY <1>10 DEF Rerun, historyVars, TypesKept, NewestWorks, Active
  <2>5. LatestIsNewest'
    BY <1>10 DEF Rerun, historyVars, TypesKept, Trees, LatestIsNewest
  <2>6. SlimIsNewest'
    BY <1>10 DEF Rerun, historyVars, SlimIsNewest
  <2>7. VersionsRise'
    BY <1>10 DEF Rerun, historyVars, TypesKept, Trees, Jobs, JobsInOrder,
               VersionsRise
  <2> QED
    BY <2>1, <2>2, <2>3, <2>4, <2>5, <2>6, <2>7
<1>11. CASE UNCHANGED vars
  BY <1>11 DEF vars, historyVars, TypesKept, JobsInOrder, TreeIsBehind, NewestWorks, LatestIsNewest,
               SlimIsNewest, VersionsRise
<1> QED
  BY <1>1, <1>2, <1>3, <1>4, <1>5, <1>6, <1>7, <1>8, <1>9, <1>10, <1>11 DEF Next, ReleaseJob

LEMMA Invariance == Spec => []IInv
  BY InitHolds, NextKeeps, PTL DEF Spec

---------------------------------------------------------------------------
(* The index only names versions that were published, by a job of their    *)
(* own checked tag.                                                        *)
THEOREM IndexIsPublished == Spec => []IndexNamesReleases
<1>1. IInv => IndexNamesReleases
  <2> SUFFICES ASSUME IInv PROVE IndexNamesReleases
    OBVIOUS
  <2>1. main.entries \subseteq Tags
    BY DEF IInv, TypesKept, Trees
  <2> QED
    BY <2>1 DEF IInv, JobsInOrder, IndexNamesReleases
<1> QED
  BY <1>1, Invariance, PTL

(* If no tag was ever ahead of main, no manifest is of an earlier version  *)
(* than its tag, however far main has moved on, or been moved on by other  *)
(* release jobs, when the release job checks it out.                       *)
THEOREM NoManifestIsOlder == Spec => []ManifestNotOlder
<1>1. IInv => ManifestNotOlder
  BY DEF IInv, VersionsRise, ManifestNotOlder
<1> QED
  BY <1>1, Invariance, PTL

(* No commit on main is lost, nor an entry of the index, nor a version     *)
(* that the developers set, however many release jobs are about.           *)
THEOREM EntriesKept == Spec => EntriesStay
<1>1. IInv /\ [Next]_vars =>
        [/\ main.entries \subseteq main'.entries
         /\ main' # main => main'.head = main.head + 1
         /\ main'.entries # main.entries => main'.version = main.version]_vars
  <2> SUFFICES ASSUME IInv, [Next]_vars, main' # main
               PROVE  /\ main.entries \subseteq main'.entries
                      /\ main'.head = main.head + 1
                      /\ main'.entries # main.entries => main'.version = main.version
    OBVIOUS
  <2>1. CASE CommitToMain
    <3>1. PICK v \in Tags : main' = [main EXCEPT !.head = @ + 1, !.version = v]
      BY <2>1 DEF CommitToMain
    <3> QED
      BY <3>1 DEF IInv, TypesKept, Trees
  <2>2. ASSUME NEW t \in Tags, UpdateIndex(t)
        PROVE  /\ main.entries \subseteq main'.entries
               /\ main'.head = main.head + 1
               /\ main'.version = main.version
    <3> DEFINE pushed == [main EXCEPT !.head = @ + 1, !.entries = @ \cup {t}, !.latest = t]
    <3>1. main' = pushed
      BY <2>2 DEF UpdateIndex, PushAccepted, IndexCommit, IInv, TreeIsBehind
    <3>2. /\ pushed.head = main.head + 1
          /\ pushed.entries = main.entries \cup {t}
          /\ pushed.version = main.version
      BY CommitOnTree DEF IInv, TypesKept
    <3> HIDE DEF pushed
    <3> QED
      BY <3>1, <3>2
  <2>3. CommitToMain \/ \E t \in Tags : UpdateIndex(t)
    BY DEF Next, ReleaseJob, PushTag, Gate, PushImage, Queue, Start, CreateRelease, JobFails,
           Rerun, vars
  <2> QED
    BY <2>1, <2>2, <2>3
<1> QED
  BY <1>1, Invariance, PTL DEF Spec, EntriesStay

(* Without overlapping runs, latest is the newest version of the index.    *)
THEOREM NewestIsLatest == Spec => []LatestIsNewest
<1>1. IInv => LatestIsNewest
  BY DEF IInv
<1> QED
  BY <1>1, Invariance, PTL

(* And :slim is the newest image.                                          *)
THEOREM NewestIsSlim == Spec => []SlimIsNewest
<1>1. IInv => SlimIsNewest
  BY DEF IInv
<1> QED
  BY <1>1, Invariance, PTL
=============================================================================
