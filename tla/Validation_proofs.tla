-------------------------- MODULE Validation_proofs --------------------------
(* Theorems of the validation of a pull request, for any configurations and   *)
(* any number of commits, failures and restarts.                              *)
EXTENDS Validation, TLAPS

\* A pass posts on a commit that it has read.
Holds == pc = "post" => sha # 0

TypeInv == TypeOK /\ Holds

\* A new Validation has a status.
LEMMA NewStatusType == NewStatus \in Status
BY DEF NewStatus, Status

\* The end of a pass keeps the types.
LEMMA EndPassType ==
    ASSUME TypeOK, NEW e \in BOOLEAN, EndPass(e)
    PROVE  /\ queued' \in BOOLEAN /\ again' \in BOOLEAN
           /\ pc' \in Stages /\ pc' # "post" /\ st' \in Status /\ sha' = 0
<1>1. queued' \in BOOLEAN
  BY Zenon DEF EndPass
<1> QED
  BY <1>1, NewStatusType DEF EndPass, Stages

\* The type invariant is inductive with the commit that a pass holds.
LEMMA TypeInvariant == Spec => []TypeInv
<1>1. Init => TypeInv
  <2> SUFFICES ASSUME Init PROVE TypeInv
    OBVIOUS
  <2>1. commits \in Seq(Configs) /\ Len(commits) = 1
    <3>1. PICK c \in Configs : commits = <<c>>
      BY DEF Init
    <3> QED
      BY <3>1
  <2>2. status \in Status /\ st \in Status
    BY NewStatusType DEF Init
  <2>3. failures \in 0..MaxFailures /\ restarts \in 0..MaxRestarts
    BY ConstantsAssumption DEF ConstantsAssumption, Init
  <2>4. queued \in BOOLEAN /\ again \in BOOLEAN /\ merged \in BOOLEAN /\ ready \in BOOLEAN
        /\ tracked \in BOOLEAN
    BY Zenon DEF Init
  <2>5. pc \in Stages /\ pc # "post" /\ sha = 0 /\ checks = {} /\ artifact = None
    BY DEF Init, Stages
  <2> QED
    BY <2>1, <2>2, <2>3, <2>4, <2>5, ConstantsAssumption
    DEF ConstantsAssumption, TypeInv, TypeOK, Holds
<1>2. TypeInv /\ [Next]_vars => TypeInv'
  <2> SUFFICES ASSUME TypeInv, [Next]_vars PROVE TypeInv'
    OBVIOUS
  <2> USE ConstantsAssumption
      DEF ConstantsAssumption, TypeInv, Holds, TypeOK, Stages, world, repository, pass,
          Return, MarkNotReady
  <2> DEFINE Ended == /\ queued' \in BOOLEAN /\ again' \in BOOLEAN
                      /\ pc' \in Stages /\ pc' # "post" /\ st' \in Status /\ sha' = 0
  <2>e. ASSUME EndPass(TRUE) PROVE Ended
    BY <2>e, EndPassType
  <2>1. CASE Begin
    BY <2>1 DEF Begin
  <2>2. CASE LookUp
    BY <2>2 DEF LookUp
  <2>3. CASE IsMergedOrClosed
    BY <2>3 DEF IsMergedOrClosed
  <2>4. CASE DeleteGitRepository
    <3>1. queued' \in BOOLEAN
      BY <2>4, Zenon DEF DeleteGitRepository
    <3> QED
      BY <2>4, <3>1 DEF DeleteGitRepository
  <2>5. CASE TrackGitRepository
    <3>1. queued' \in BOOLEAN
      <4>1. queued' = (queued \/ ~tracked) \/ queued' = queued
        BY <2>5, Zenon DEF TrackGitRepository
      <4> QED
        BY <4>1, Zenon
    <3>2. tracked' \in BOOLEAN /\ again' \in BOOLEAN /\ pc' \in Stages /\ pc' # "post"
      BY <2>5 DEF TrackGitRepository
    <3>3. st' \in Status
      BY <2>5 DEF TrackGitRepository, Status
    <3> QED
      BY <2>5, <3>1, <3>2, <3>3 DEF TrackGitRepository
  <2>6. CASE FetchAndValidate
    <3>1. st' \in Status
      BY <2>6 DEF FetchAndValidate, Status
    <3>2. again' \in BOOLEAN /\ pc' \in {"head", "patchStatus"}
      BY <2>6 DEF FetchAndValidate
    <3> QED
      BY <2>6, <3>1, <3>2 DEF FetchAndValidate
  <2>7. CASE ReadHead
    BY <2>7 DEF ReadHead
  <2>8. CASE PostCheck
    <3>1. st' \in Status /\ again' = TRUE /\ pc' = "patchStatus"
      BY <2>8 DEF PostCheck, Status
    <3>2. checks' \subseteq 1..Len(commits)
      BY <2>8 DEF PostCheck
    <3> QED
      BY <2>8, <3>1, <3>2 DEF PostCheck
  <2>9. CASE PatchStatus
    BY <2>9 DEF PatchStatus, Status
  <2>10. CASE PatchConditions
    <3>1. status' \in Status
      BY <2>10 DEF PatchConditions, Status
    <3>2. EndPass(again)
      BY <2>10 DEF PatchConditions
    <3> QED
      BY <2>10, <3>1, <3>2, EndPassType DEF PatchConditions
  <2>11. CASE RequestFails
    <3>1. CASE pc \in {"lookup", "delete", "head", "post", "merged", "track", "fetch"}
      <4>1. st' \in Status
        BY <2>11, <3>1 DEF RequestFails, Status
      <4>2. again' = TRUE /\ pc' = "patchStatus" /\ UNCHANGED <<queued, sha>>
        BY <2>11, <3>1 DEF RequestFails
      <4> QED
        BY <2>11, <4>1, <4>2 DEF RequestFails
    <3>2. CASE pc = "patchStatus"
      BY <2>11, <3>2 DEF RequestFails
    <3>3. CASE pc = "patchConditions"
      <4>1. EndPass(TRUE)
        BY <2>11, <3>3 DEF RequestFails
      <4> QED
        BY <2>11, <2>e, <4>1 DEF RequestFails
    <3> QED
      BY <2>11, <3>1, <3>2, <3>3 DEF RequestFails
  <2>12. CASE Restart
    <3>1. EndPass(TRUE)
      BY <2>12 DEF Restart
    <3> QED
      BY <2>12, <2>e, <3>1 DEF Restart
  <2>13. CASE BecomeReady \/ Merge
    BY <2>13 DEF BecomeReady, Merge
  <2>14. CASE FetchHead
    BY <2>14 DEF FetchHead, Tip
  <2>15. ASSUME NEW c \in Configs, PushCommit(c) PROVE TypeInv'
    <3>1. commits' \in Seq(Configs) /\ Len(commits') = Len(commits) + 1
      BY <2>15 DEF PushCommit
    <3> QED
      BY <2>15, <3>1 DEF PushCommit
  <2>16. CASE UNCHANGED vars
    BY <2>16 DEF vars
  <2> QED
    BY <2>1, <2>2, <2>3, <2>4, <2>5, <2>6, <2>7, <2>8, <2>9, <2>10, <2>11, <2>12,
       <2>13, <2>14, <2>15, <2>16
    DEF Next, Reconcile, Environment
<1> QED
  BY <1>1, <1>2, PTL DEF Spec

\* Types: every variable stays within the values that its comment names.
THEOREM TypeCorrect == Spec => []TypeOK
<1>1. TypeInv => TypeOK
  BY DEF TypeInv
<1> QED
  BY <1>1, TypeInvariant, PTL

-----------------------------------------------------------------------------
(* The reference to the GitRepository *)

\* The stages that have not touched the reference nor the condition.
Unchanged == {"lookup", "merged", "delete", "track", "fetch", "head", "post"}

\* What a pass knows of the reference, and what its patches will write: Ready is
\* only ever written once the reference is on the server.
ReferenceInv ==
    /\ status.ready = "True" => status.gitref
    /\ pc \in Unchanged => st.gitref = status.gitref /\ st.ready = status.ready
    /\ pc \in {"merged", "delete", "fetch", "head", "post"} => st.gitref
    /\ pc = "patchStatus" => (status.gitref => st.gitref)
    /\ pc \in {"patchStatus", "patchConditions"} => (st.ready = "True" => status.gitref)

\* The end of a pass forgets it.
LEMMA EndPassForgets ==
    ASSUME NEW e, EndPass(e)
    PROVE  /\ pc' = "idle" /\ st'.gitref = FALSE /\ st'.ready = "none"
           /\ st'.outcome = "none" /\ sha' = 0
BY DEF EndPass, NewStatus

LEMMA ReferenceInvariant == Spec => []ReferenceInv
<1>1. Init => ReferenceInv
  BY DEF Init, NewStatus, ReferenceInv, Unchanged
<1>2. TypeOK /\ ReferenceInv /\ [Next]_vars => ReferenceInv'
  <2> SUFFICES ASSUME TypeOK, ReferenceInv, [Next]_vars PROVE ReferenceInv'
    OBVIOUS
  <2>t. status \in Status /\ st \in Status
    BY DEF TypeOK
  <2> USE <2>t DEF Status, ReferenceInv, Unchanged, pass, Return, MarkNotReady
  <2>e. ASSUME NEW e, EndPass(e) PROVE pc' = "idle"
    BY <2>e, EndPassForgets
  <2>1. CASE Begin
    BY <2>1 DEF Begin
  <2>2. CASE LookUp
    BY <2>2 DEF LookUp
  <2>3. CASE IsMergedOrClosed
    BY <2>3 DEF IsMergedOrClosed
  <2>4. CASE DeleteGitRepository
    BY <2>4 DEF DeleteGitRepository
  <2>5. CASE TrackGitRepository
    BY <2>5 DEF TrackGitRepository
  <2>6. CASE FetchAndValidate
    BY <2>6 DEF FetchAndValidate
  <2>7. CASE ReadHead
    BY <2>7 DEF ReadHead
  <2>8. CASE PostCheck
    BY <2>8 DEF PostCheck, repository
  <2>9. CASE PatchStatus
    BY <2>9 DEF PatchStatus
  <2>10. CASE PatchConditions
    <3>1. pc' = "idle"
      BY <2>10, <2>e DEF PatchConditions
    <3> QED
      BY <2>10, <3>1 DEF PatchConditions
  <2>11. CASE RequestFails
    <3>1. CASE pc = "patchConditions"
      <4>1. pc' = "idle"
        BY <2>11, <3>1, <2>e DEF RequestFails
      <4> QED
        BY <2>11, <4>1 DEF RequestFails
    <3> QED
      BY <2>11, <3>1 DEF RequestFails
  <2>12. CASE Restart
    <3>1. pc' = "idle"
      BY <2>12, <2>e DEF Restart
    <3> QED
      BY <2>12, <3>1 DEF Restart
  <2>13. CASE Environment \/ UNCHANGED vars
    BY <2>13 DEF Environment, BecomeReady, Merge, FetchHead, PushCommit, vars
  <2> QED
    BY <2>1, <2>2, <2>3, <2>4, <2>5, <2>6, <2>7, <2>8, <2>9, <2>10, <2>11, <2>12, <2>13
    DEF Next, Reconcile
<1> QED
  BY <1>1, <1>2, TypeCorrect, PTL DEF Spec

\* The reference that a ready Validation follows to its GitRepository is there,
\* in the status as in the memory of a pass (controllers/validation_controller.go).
THEOREM ReadyHasReference == Spec => []ReadyHasGitRepository
<1>1. ReferenceInv => ReadyHasGitRepository
  BY DEF ReferenceInv, ReadyHasGitRepository
<1> QED
  BY <1>1, ReferenceInvariant, PTL

-----------------------------------------------------------------------------
(* Open pull requests, and what is posted on them *)

\* Only the controller of a finished pull request deletes the GitRepository.
TrackedInv ==
    /\ pc = "delete" => merged
    /\ (status.gitref \/ st.gitref) /\ ~merged => tracked

LEMMA TrackedInvariant == Spec => []TrackedInv
<1>1. Init => TrackedInv
  BY DEF Init, NewStatus, TrackedInv
<1>2. TypeOK /\ TrackedInv /\ [Next]_vars => TrackedInv'
  <2> SUFFICES ASSUME TypeOK, TrackedInv, [Next]_vars PROVE TrackedInv'
    OBVIOUS
  <2>t. status \in Status /\ st \in Status
    BY DEF TypeOK
  <2> USE <2>t DEF Status, TrackedInv, pass, world, repository, Return, MarkNotReady
  <2>e. ASSUME NEW e, EndPass(e) PROVE pc' = "idle" /\ ~st'.gitref
    BY <2>e, EndPassForgets
  <2>1. CASE Begin
    BY <2>1 DEF Begin
  <2>2. CASE LookUp
    BY <2>2 DEF LookUp
  <2>3. CASE IsMergedOrClosed
    BY <2>3 DEF IsMergedOrClosed
  <2>4. CASE DeleteGitRepository
    BY <2>4 DEF DeleteGitRepository
  <2>5. CASE TrackGitRepository
    BY <2>5 DEF TrackGitRepository
  <2>6. CASE FetchAndValidate
    BY <2>6 DEF FetchAndValidate
  <2>7. CASE ReadHead
    BY <2>7 DEF ReadHead
  <2>8. CASE PostCheck
    BY <2>8 DEF PostCheck
  <2>9. CASE PatchStatus
    BY <2>9 DEF PatchStatus
  <2>10. CASE PatchConditions
    <3>1. pc' = "idle" /\ ~st'.gitref
      BY <2>10, <2>e DEF PatchConditions
    <3> QED
      BY <2>10, <3>1 DEF PatchConditions
  <2>11. CASE RequestFails
    <3>1. CASE pc = "patchConditions"
      <4>1. pc' = "idle" /\ ~st'.gitref
        BY <2>11, <3>1, <2>e DEF RequestFails
      <4> QED
        BY <2>11, <4>1 DEF RequestFails
    <3> QED
      BY <2>11, <3>1 DEF RequestFails
  <2>12. CASE Restart
    <3>1. pc' = "idle" /\ ~st'.gitref
      BY <2>12, <2>e DEF Restart
    <3> QED
      BY <2>12, <3>1 DEF Restart
  <2>13. CASE Environment \/ UNCHANGED vars
    BY <2>13 DEF Environment, BecomeReady, Merge, FetchHead, PushCommit, vars
  <2> QED
    BY <2>1, <2>2, <2>3, <2>4, <2>5, <2>6, <2>7, <2>8, <2>9, <2>10, <2>11, <2>12, <2>13
    DEF Next, Reconcile
<1> QED
  BY <1>1, <1>2, TypeCorrect, PTL DEF Spec

\* As long as the pull request is open, its GitRepository is there: a pass that
\* decided to delete it saw the end of the pull request, which is final.
THEOREM OpenStaysTracked == Spec => []OpenIsTracked
<1>1. TrackedInv => OpenIsTracked
  BY DEF TrackedInv, OpenIsTracked
<1> QED
  BY <1>1, TrackedInvariant, PTL

\* A pass that is going to report success has posted its check.
PostedInv ==
    /\ ReadyIsPosted
    /\ st.ready = "True" \/ st.outcome = "success" => checks # {}

LEMMA PostedInvariant == Spec => []PostedInv
<1>1. Init => PostedInv
  BY DEF Init, NewStatus, PostedInv, ReadyIsPosted
<1>2. TypeOK /\ PostedInv /\ [Next]_vars => PostedInv'
  <2> SUFFICES ASSUME TypeOK, PostedInv, [Next]_vars PROVE PostedInv'
    OBVIOUS
  <2>t. status \in Status /\ st \in Status
    BY DEF TypeOK
  <2> USE <2>t DEF Status, PostedInv, ReadyIsPosted, pass, world, Return, MarkNotReady
  <2>e. ASSUME NEW e, EndPass(e) PROVE st'.ready = "none" /\ st'.outcome = "none"
    BY <2>e, EndPassForgets
  <2>1. CASE Begin
    BY <2>1 DEF Begin
  <2>2. CASE LookUp \/ IsMergedOrClosed \/ ReadHead \/ UNCHANGED vars
    BY <2>2 DEF LookUp, IsMergedOrClosed, ReadHead, vars
  <2>3. CASE DeleteGitRepository
    BY <2>3 DEF DeleteGitRepository
  <2>4. CASE TrackGitRepository
    BY <2>4 DEF TrackGitRepository
  <2>5. CASE FetchAndValidate
    BY <2>5 DEF FetchAndValidate
  <2>6. CASE PostCheck
    <3>1. checks' # {}
      BY <2>6 DEF PostCheck
    <3> QED
      BY <3>1
  <2>7. CASE PatchStatus
    BY <2>7 DEF PatchStatus
  <2>8. CASE PatchConditions
    <3>1. st'.ready = "none" /\ st'.outcome = "none"
      BY <2>8, <2>e DEF PatchConditions
    <3> QED
      BY <2>8, <3>1 DEF PatchConditions
  <2>9. CASE RequestFails
    <3>1. CASE pc = "patchConditions"
      <4>1. st'.ready = "none" /\ st'.outcome = "none"
        BY <2>9, <3>1, <2>e DEF RequestFails
      <4> QED
        BY <2>9, <4>1 DEF RequestFails
    <3> QED
      BY <2>9, <3>1 DEF RequestFails
  <2>10. CASE Restart
    <3>1. st'.ready = "none" /\ st'.outcome = "none"
      BY <2>10, <2>e DEF Restart
    <3> QED
      BY <2>10, <3>1 DEF Restart
  <2>11. CASE Environment
    BY <2>11 DEF Environment, BecomeReady, Merge, FetchHead, PushCommit
  <2> QED
    BY <2>1, <2>2, <2>3, <2>4, <2>5, <2>6, <2>7, <2>8, <2>9, <2>10, <2>11
    DEF Next, Reconcile
<1> QED
  BY <1>1, <1>2, TypeCorrect, PTL DEF Spec

\* Whoever reads that the Validation is ready, or that it succeeded, finds a check
\* on a commit: no order of patches and failures writes the status before.
THEOREM ReadyWasPosted == Spec => []ReadyIsPosted
<1>1. PostedInv => ReadyIsPosted
  BY DEF PostedInv
<1> QED
  BY <1>1, PostedInvariant, PTL

\* The configuration that is in hand was in the pull request before.
Reached(c, n) == \E k \in 1..n : commits[k] = c

ChecksInv ==
    /\ CheckedAfterValid
    /\ artifact # None => Reached(artifact, Len(commits))
    /\ pc \in {"fetch", "head"} => Reached(st.digest, Len(commits))
    /\ pc = "head" => st.digest \in Valid
    /\ pc = "post" => \E k \in 1..sha : commits[k] \in Valid

LEMMA ChecksInvariant == Spec => []ChecksInv
<1>1. Init => ChecksInv
  BY DEF Init, ChecksInv, CheckedAfterValid
<1>2. TypeInv /\ ChecksInv /\ [Next]_vars => ChecksInv'
  <2> SUFFICES ASSUME TypeInv, ChecksInv, [Next]_vars PROVE ChecksInv'
    OBVIOUS
  <2>t. /\ status \in Status /\ st \in Status /\ commits \in Seq(Configs)
        /\ Len(commits) \in Nat \ {0} /\ checks \subseteq 1..Len(commits)
        /\ sha \in 0..Len(commits)
    BY ConstantsAssumption DEF ConstantsAssumption, TypeInv, TypeOK
  <2> USE <2>t DEF ChecksInv, CheckedAfterValid, Reached, pass, world, repository, Return
  <2>e. ASSUME NEW e, EndPass(e) PROVE pc' = "idle"
    BY <2>e, EndPassForgets
  <2>1. CASE Begin \/ LookUp \/ IsMergedOrClosed \/ PatchStatus \/ BecomeReady \/ Merge \/ UNCHANGED vars
    BY <2>1 DEF Begin, LookUp, IsMergedOrClosed, PatchStatus, BecomeReady, Merge, vars
  <2>2. CASE DeleteGitRepository
    BY <2>2 DEF DeleteGitRepository
  <2>3. CASE TrackGitRepository
    <3>1. pc' = "fetch" => artifact # None /\ st'.digest = artifact
      BY <2>3 DEF TrackGitRepository, Status
    <3>2. pc' \in {"fetch", "patchStatus"} /\ UNCHANGED <<world, artifact, sha>>
      BY <2>3 DEF TrackGitRepository
    <3> QED
      BY <3>1, <3>2
  <2>4. CASE FetchAndValidate
    BY <2>4 DEF FetchAndValidate
  <2>5. CASE ReadHead
    <3>1. \E k \in 1..Len(commits) : commits[k] \in Valid
      BY <2>5 DEF ReadHead
    <3> QED
      BY <2>5, <3>1 DEF ReadHead
  <2>6. CASE PostCheck
    BY <2>6 DEF PostCheck
  <2>7. CASE PatchConditions
    <3>1. pc' = "idle"
      BY <2>7, <2>e DEF PatchConditions
    <3> QED
      BY <2>7, <3>1 DEF PatchConditions
  <2>8. CASE RequestFails
    <3>1. pc' \in {"idle", "patchStatus", "patchConditions"}
      BY <2>8, <2>e DEF RequestFails
    <3> QED
      BY <2>8, <3>1 DEF RequestFails
  <2>9. CASE Restart
    <3>1. pc' = "idle"
      BY <2>9, <2>e DEF Restart
    <3> QED
      BY <2>9, <3>1 DEF Restart
  <2>10. CASE FetchHead
    <3>1. Reached(artifact', Len(commits))
      BY <2>10 DEF FetchHead, Tip
    <3> QED
      BY <2>10, <3>1 DEF FetchHead
  <2>11. ASSUME NEW c \in Configs, PushCommit(c) PROVE ChecksInv'
    <3>1. commits' = Append(commits, c)
      BY <2>11 DEF PushCommit
    <3>2. /\ Len(commits') = Len(commits) + 1
          /\ \A k \in 1..Len(commits) : commits'[k] = commits[k]
      BY <3>1
    <3> QED
      BY <2>11, <3>2 DEF PushCommit
  <2> QED
    BY <2>1, <2>2, <2>3, <2>4, <2>5, <2>6, <2>7, <2>8, <2>9, <2>10, <2>11
    DEF Next, Reconcile, Environment
<1> QED
  BY <1>1, <1>2, TypeInvariant, PTL DEF Spec

\* A check is never on a commit that nothing valid went before: the head that is
\* read after the validation only ever moves on (controllers/validation_controller.go,
\* pkg/validators/github).
THEOREM ChecksFollowValid == Spec => []CheckedAfterValid
<1>1. ChecksInv => CheckedAfterValid
  BY DEF ChecksInv
<1> QED
  BY <1>1, ChecksInvariant, PTL
=============================================================================
