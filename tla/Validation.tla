----------------------------- MODULE Validation -----------------------------
(* One Validation: the controller tracks the configuration in a pull request  *)
(* with a GitRepository object, validates what source-controller fetches, and *)
(* reports success on the commit that heads the pull request, until the pull  *)
(* request is merged or closed.  People push commits, and merge, at any time. *)
EXTENDS Naturals, Sequences

CONSTANTS None,
          Configs,     \* contents of config.cue, told apart by their digest
          Valid,       \* those that satisfy the schema
          MaxCommits,  \* bound on the commits of the pull request
          MaxFailures, \* bound on failed requests
          MaxRestarts  \* bound on process restarts

ASSUME ConstantsAssumption ==
    /\ Valid \subseteq Configs /\ None \notin Configs
    /\ MaxCommits \in Nat \ {0} /\ MaxFailures \in Nat /\ MaxRestarts \in Nat

VARIABLES
  \* the world
  commits,  \* the configuration in each commit of the pull request
  merged,   \* the pull request is merged or closed
  checks,   \* the commits that carry the success check
  ready,    \* the Sync and the project are ready
  tracked,  \* the GitRepository exists
  artifact, \* the configuration it has fetched last
  \* the controller
  status,   \* the status of the Validation on the API server
  queued,   \* the Validation is in the work queue
  pc,       \* the request the pass makes next
  st,       \* the status in memory
  again,    \* the pass ends in an error or asks to be requeued
  sha,      \* the commit that headed the pull request when it was read
  failures, restarts

world == <<commits, merged, checks, ready>>
repository == <<tracked, artifact>>
pass == <<queued, pc, st, again, sha>>
vars == <<world, repository, status, pass, failures, restarts>>

Status == [gitref : BOOLEAN, digest : Configs \cup {None},
           outcome : {"none", "success"}, ready : {"none", "True", "False"}]

Stages == {"idle", "lookup", "merged", "delete", "track", "fetch", "head", "post",
           "patchStatus", "patchConditions"}

TypeOK ==
    /\ commits \in Seq(Configs) /\ Len(commits) \in 1..MaxCommits
    /\ checks \subseteq 1..Len(commits)
    /\ merged \in BOOLEAN /\ ready \in BOOLEAN /\ tracked \in BOOLEAN
    /\ artifact \in Configs \cup {None}
    /\ status \in Status /\ st \in Status
    /\ queued \in BOOLEAN /\ again \in BOOLEAN /\ pc \in Stages
    /\ sha \in 0..Len(commits)
    /\ failures \in 0..MaxFailures /\ restarts \in 0..MaxRestarts

NewStatus == [gitref |-> FALSE, digest |-> None, outcome |-> "none", ready |-> "none"]

Init ==
    /\ commits \in {<<c>> : c \in Configs}
    /\ checks = {}
    /\ merged = FALSE /\ ready = FALSE /\ tracked = FALSE /\ artifact = None
    /\ status = NewStatus /\ st = NewStatus
    /\ queued = TRUE /\ again = FALSE /\ pc = "idle" /\ sha = 0
    /\ failures = 0 /\ restarts = 0

Tip == commits[Len(commits)]

-----------------------------------------------------------------------------
(* Reconcile *)

\* Leave the pass for the deferred patch; e: the Validation comes back.
Return(s, e) == pc' = "patchStatus" /\ st' = s /\ again' = e

MarkNotReady(s) == [s EXCEPT !.ready = "False"]

\* Read the Validation.  While the Sync or the project is not ready it comes back
\* and nothing changes.
Begin ==
    /\ pc = "idle" /\ queued /\ ready
    /\ pc' = "lookup" /\ queued' = FALSE /\ st' = status /\ again' = FALSE
    /\ UNCHANGED <<world, repository, status, sha, failures, restarts>>

\* The project and its repository are there.
LookUp ==
    /\ pc = "lookup"
    /\ pc' = IF st.ready = "True" THEN "merged" ELSE "track"
    /\ UNCHANGED <<world, repository, status, queued, st, again, sha, failures, restarts>>

\* Mutant: the answer is read the other way round.
IsOpen ==
    /\ pc = "merged"
    /\ pc' = IF merged THEN "track" ELSE "delete"
    /\ UNCHANGED <<world, repository, status, queued, st, again, sha, failures, restarts>>

\* Only a Validation that is ready asks whether its pull request is done.
IsMergedOrClosed ==
    /\ pc = "merged"
    /\ pc' = IF merged THEN "delete" ELSE "track"
    /\ UNCHANGED <<world, repository, status, queued, st, again, sha, failures, restarts>>

\* Mutant: the GitRepository is left to the garbage collector.
StopWithoutDeleting ==
    /\ pc = "delete"
    /\ Return(st, FALSE)
    /\ UNCHANGED <<world, repository, status, queued, sha, failures, restarts>>

\* Stop for good; the deletion is an event for the owner.
DeleteGitRepository ==
    /\ pc = "delete"
    /\ tracked' = FALSE /\ artifact' = None
    /\ queued' = (queued \/ tracked)
    /\ Return(st, FALSE)
    /\ UNCHANGED <<world, status, sha, failures, restarts>>

\* Mutant: the pass that creates the GitRepository goes on with what is there.
TrackAndGoOn ==
    /\ pc = "track"
    /\ tracked' = TRUE
    /\ \/ artifact \in {None, st.digest} /\ Return([st EXCEPT !.gitref = TRUE], TRUE)
       \/ /\ artifact \notin {None, st.digest}
          /\ st' = [st EXCEPT !.gitref = TRUE, !.digest = artifact]
          /\ pc' = "fetch"
          /\ UNCHANGED again
    /\ UNCHANGED <<world, artifact, status, queued, sha, failures, restarts>>

\* Mutant: a Validation that has a digest is done.
TrackOnce ==
    /\ pc = "track"
    /\ tracked' = TRUE
    /\ queued' = (queued \/ ~tracked)
    /\ IF st.gitref /\ artifact # None /\ st.digest = None
         THEN st' = [st EXCEPT !.digest = artifact] /\ pc' = "fetch" /\ UNCHANGED again
         ELSE Return([st EXCEPT !.gitref = TRUE], st.gitref)
    /\ UNCHANGED <<world, artifact, status, sha, failures, restarts>>

\* The first pass creates the GitRepository and waits for its events; a later one
\* reads it, and goes on if it has fetched what was not validated yet.
TrackGitRepository ==
    /\ pc = "track"
    /\ \/ /\ ~st.gitref
          /\ tracked' = TRUE
          /\ queued' = (queued \/ ~tracked)
          /\ Return([st EXCEPT !.gitref = TRUE], FALSE)
       \/ /\ st.gitref /\ ~tracked
          /\ Return(st, FALSE)
          /\ UNCHANGED <<tracked, queued>>
       \/ /\ st.gitref /\ tracked
          /\ artifact \in {None, st.digest}
          /\ Return(st, TRUE)
          /\ UNCHANGED <<tracked, queued>>
       \/ /\ st.gitref /\ tracked
          /\ artifact \notin {None, st.digest}
          /\ st' = [st EXCEPT !.digest = artifact]
          /\ pc' = "fetch"
          /\ UNCHANGED <<tracked, queued, again>>
    /\ UNCHANGED <<world, artifact, status, sha, failures, restarts>>

\* Mutant: the configuration is fetched and not validated.
FetchOnly ==
    /\ pc = "fetch"
    /\ pc' = "head"
    /\ UNCHANGED <<world, repository, status, queued, st, again, sha, failures, restarts>>

\* Download the artifact and validate it against the schema.
FetchAndValidate ==
    /\ pc = "fetch"
    /\ \/ st.digest \in Valid /\ pc' = "head" /\ UNCHANGED <<st, again>>
       \/ st.digest \notin Valid /\ Return(MarkNotReady(st), TRUE)
    /\ UNCHANGED <<world, repository, status, queued, sha, failures, restarts>>

\* Mutant: one commit too far.
ReadNext ==
    /\ pc = "head"
    /\ sha' = Len(commits) + 1
    /\ pc' = "post"
    /\ UNCHANGED <<world, repository, status, queued, st, again, failures, restarts>>

\* PassValidation: read which commit heads the pull request by now,
ReadHead ==
    /\ pc = "head"
    /\ sha' = Len(commits)
    /\ pc' = "post"
    /\ UNCHANGED <<world, repository, status, queued, st, again, failures, restarts>>

\* Mutant: the status is set before the check is posted, and an error is dropped.
PostLater ==
    /\ pc = "post"
    /\ Return([st EXCEPT !.ready = "True", !.outcome = "success"], TRUE)
    /\ UNCHANGED <<world, repository, status, queued, sha, failures, restarts>>

\* and post success on it.
PostCheck ==
    /\ pc = "post"
    /\ checks' = checks \cup {sha}
    /\ Return([st EXCEPT !.ready = "True", !.outcome = "success"], TRUE)
    /\ UNCHANGED <<commits, merged, ready, repository, status, queued, sha, failures, restarts>>

\* The deferred patch: the status first,
PatchStatus ==
    /\ pc = "patchStatus"
    /\ status' = [st EXCEPT !.ready = status.ready]
    /\ pc' = "patchConditions"
    /\ UNCHANGED <<world, repository, queued, st, again, sha, failures, restarts>>

\* Nothing of the pass remains in memory.
EndPass(e) ==
    /\ pc' = "idle"
    /\ queued' = (queued \/ e)
    /\ again' = FALSE /\ sha' = 0 /\ st' = NewStatus

\* then the conditions.
PatchConditions ==
    /\ pc = "patchConditions"
    /\ status' = [status EXCEPT !.ready = st.ready]
    /\ EndPass(again)
    /\ UNCHANGED <<world, repository, failures, restarts>>

Reconcile ==
    \/ Begin \/ LookUp \/ IsMergedOrClosed \/ DeleteGitRepository \/ TrackGitRepository
    \/ FetchAndValidate \/ ReadHead \/ PostCheck \/ PatchStatus \/ PatchConditions

-----------------------------------------------------------------------------
(* What goes wrong *)

\* A failed request ends the pass in an error.  Some failures are recorded in the
\* status; the digest is in memory already when the download fails.
RequestFails ==
    /\ failures < MaxFailures /\ failures' = failures + 1
    /\ \/ /\ pc \in {"lookup", "delete", "head", "post"}
          /\ Return(MarkNotReady(st), TRUE)
          /\ UNCHANGED <<queued, sha>>
       \/ /\ pc \in {"merged", "track", "fetch"}
          /\ Return(st, TRUE)
          /\ UNCHANGED <<queued, sha>>
       \/ /\ pc = "patchStatus"
          /\ pc' = "patchConditions" /\ again' = TRUE
          /\ UNCHANGED <<queued, st, sha>>
       \/ pc = "patchConditions" /\ EndPass(TRUE)
    /\ UNCHANGED <<world, repository, status, restarts>>

\* A new process lists every Validation.
Restart ==
    /\ restarts < MaxRestarts /\ restarts' = restarts + 1
    /\ EndPass(TRUE)
    /\ UNCHANGED <<world, repository, status, failures>>

-----------------------------------------------------------------------------
(* What others do *)

BecomeReady ==
    /\ ready' = TRUE
    /\ UNCHANGED <<commits, merged, checks, repository, status, pass, failures, restarts>>

PushCommit(c) ==
    /\ ~merged /\ Len(commits) < MaxCommits
    /\ commits' = Append(commits, c)
    /\ UNCHANGED <<merged, checks, ready, repository, status, pass, failures, restarts>>

Merge ==
    /\ ~merged /\ merged' = TRUE
    /\ UNCHANGED <<commits, checks, ready, repository, status, pass, failures, restarts>>

\* source-controller fetches the head of the pull request: an event for the owner.
FetchHead ==
    /\ tracked /\ artifact # Tip
    /\ artifact' = Tip
    /\ queued' = TRUE
    /\ UNCHANGED <<world, tracked, status, pc, st, again, sha, failures, restarts>>

Environment == BecomeReady \/ Merge \/ FetchHead \/ \E c \in Configs : PushCommit(c)

Next == Reconcile \/ RequestFails \/ Restart \/ Environment

Spec == Init /\ [][Next]_vars

\* The worker runs while its queue is not empty, source-controller polls, and the
\* Sync and the project become ready.
FairSpec == Spec /\ WF_vars(Reconcile) /\ WF_vars(FetchHead) /\ WF_vars(BecomeReady)

-----------------------------------------------------------------------------
(* Safety *)

\* The reference that is followed, unchecked, to delete the GitRepository of a
\* ready Validation is there, even if one of the patches of a pass was lost.
ReadyHasGitRepository ==
    /\ status.ready = "True" => status.gitref
    /\ pc \in {"merged", "delete"} => st.gitref

\* The head may have moved on since it was fetched, so that a check can be on a
\* commit that is not valid; there is a valid commit at or before it.
CheckedAfterValid ==
    \A n \in checks : \E k \in 1..n : commits[k] \in Valid

\* A Validation that is ready has posted a check, in whichever order its writes
\* and their failures came.
ReadyIsPosted == status.ready = "True" \/ status.outcome = "success" => checks # {}

\* The GitRepository is there as long as the pull request is open.
OpenIsTracked == status.gitref /\ ~merged => tracked

-----------------------------------------------------------------------------
(* Liveness *)

Distinct == \A i, j \in DOMAIN commits : commits[i] = commits[j] => i = j

\* When nothing fails, the last commit of a pull request that stays open gets its
\* check if it is valid, although the head moves on during validations; this takes
\* commits that change the configuration, for only these have a new digest.
HeadGetsChecked ==
    [](failures = 0 /\ restarts = 0) /\ []<>(Distinct /\ Tip \in Valid /\ ~merged) => <>[](Len(commits) \in checks)

\* When no request fails, the GitRepository of a ready Validation is removed after
\* the merge, restarts notwithstanding, unless a later commit is found not valid.
ReadyIsCleanedUp ==
    [](failures = 0) =>
        (merged /\ status.ready = "True" ~> ~tracked \/ status.ready = "False")

-----------------------------------------------------------------------------
(* What comments of the code claim and the code does not do *)

\* validation_types.go:44: "LastValidatedDigest contains the last digest that has
\* been validated": a valid one has been reported then.
LastDigestIsValidated ==
    pc = "idle" /\ status.digest \in Valid => status.outcome = "success"
=============================================================================
