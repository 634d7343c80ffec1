-------------------------------- MODULE Target --------------------------------
(* The Target controller: one worker provisions the namespace a target names  *)
(* and a service account that pulls with the secrets the target selects.  The *)
(* target and the secrets change, requests fail and the process stops between *)
(* any two of its requests.                                                   *)
EXTENDS Naturals

CONSTANTS Namespaces,  \* namespaces that targets name
          Secrets,     \* secrets with the labels of the selector
          Specs,       \* the specs users may write
          None,        \* no object
          MaxGen,      \* bound on the generation of the target
          MaxChanges,  \* bound on the changes to the secrets
          MaxFaults    \* bound on failed requests and restarts

\* access: what spec.access holds.  account: a service account is named.
\* selector: the secrets are selected.  periodic: the interval is not zero.
AllSpecs == [access : {"kubernetes", "malformed", "absent"}, ns : Namespaces,
             account : BOOLEAN, selector : BOOLEAN, periodic : BOOLEAN]

ASSUME ConstantsAssumption ==
    /\ Specs \subseteq AllSpecs
    /\ \A s \in Specs : s = [access |-> s.access, ns |-> s.ns, account |-> s.account,
                             selector |-> s.selector, periodic |-> s.periodic]
    /\ MaxGen \in Nat \ {0} /\ MaxChanges \in Nat /\ MaxFaults \in Nat
    /\ \A s \in SUBSET Secrets : s # None

VARIABLES
  \* the cluster
  spec,        \* the target's spec
  gen,         \* its generation
  secrets,     \* the secrets in each namespace
  namespaces,  \* the namespaces that exist
  accounts,    \* the pull secrets of the service account in each namespace
  status,      \* the target's status on the API server
  \* the controller
  due,         \* the target is in the work queue: at once, after its interval, or not
  pc,          \* the step the pass makes next
  obj,         \* the target in memory: spec and generation as read, status as edited
  listed,      \* the secrets listed in this pass
  out,         \* how reconcile returned
  pending,     \* the patches of this pass still to send
  changes, faults

desired == <<spec, gen, secrets, changes>>
provided == <<namespaces, accounts>>
vars == <<desired, provided, status, due, pc, obj, listed, out, pending, faults>>

Conditions == [ready : {"True", "False", "Unknown", "Absent"}, recon : BOOLEAN, stalled : BOOLEAN]
Status == [cond : Conditions, observed : 0..MaxGen]
NewStatus == [cond |-> [ready |-> "Absent", recon |-> FALSE, stalled |-> FALSE], observed |-> 0]

TypeOK ==
    /\ spec \in AllSpecs /\ gen \in 1..MaxGen
    /\ secrets \in [Namespaces -> SUBSET Secrets]
    /\ namespaces \subseteq Namespaces
    /\ accounts \in [Namespaces -> {None} \cup SUBSET Secrets]
    /\ \A n \in Namespaces : accounts[n] # None => n \in namespaces
    /\ status \in Status
    /\ due \in {"now", "interval", "no"}
    /\ pc \in {"idle", "progress", "access", "namespace", "secrets", "account", "finish", "patch"}
    /\ obj \in [spec : AllSpecs, gen : 1..MaxGen, cond : Conditions]
    /\ listed \subseteq Secrets
    /\ out \in {"ok", "error", "panic"}
    /\ pending \subseteq {"status", "conditions"}
    /\ changes \in 0..MaxChanges /\ faults \in 0..MaxFaults

Init ==
    /\ spec \in Specs /\ gen = 1
    /\ secrets \in [Namespaces -> SUBSET Secrets]
    /\ namespaces = {} /\ accounts = [n \in Namespaces |-> None]
    /\ status = NewStatus
    /\ due = "now" /\ pc = "idle" /\ obj = [spec |-> spec, gen |-> 1, cond |-> NewStatus.cond]
    /\ listed = {} /\ out = "ok" /\ pending = {}
    /\ changes = 0 /\ faults = 0

-----------------------------------------------------------------------------
(* setStatus, and the deferred patch. *)

\* The result asks for the interval.  The error is that of the defer statement,
\* which is nil; so with an interval of zero every result looks successful.
Successful(o) == o = "ok" \/ ~obj.spec.periodic

\* The conditions that setStatus leaves; Ready=False is kept as an error.
Final(c, o) ==
    LET recon == c.recon /\ ~c.stalled /\ ~Successful(o)
        ready == Successful(o) /\ ~recon /\ ~c.stalled /\ c.ready # "False"
    IN  [ready |-> IF ready THEN "True" ELSE c.ready, recon |-> recon, stalled |-> c.stalled]

\* reconcile returns, setStatus runs, and the status is to be patched.
Return(c, o) ==
    /\ pc' = "patch" /\ out' = o
    /\ obj' = [obj EXCEPT !.cond = Final(c, o)]
    /\ pending' = {"status", "conditions"}

NotReady(c) == [c EXCEPT !.ready = "False"]

IsReady(c) == c.ready = "True" /\ ~c.recon /\ ~c.stalled

ObservedGeneration ==
    IF IsReady(obj.cond) \/ obj.cond.stalled THEN obj.gen ELSE status.observed

\* The status and the conditions are sent in a request each, in any order.
PatchStatus(what) ==
    /\ pc = "patch" /\ what \in pending
    /\ pending' = pending \ {what}
    /\ status' = IF what = "status" THEN [status EXCEPT !.observed = ObservedGeneration]
                                    ELSE [status EXCEPT !.cond = obj.cond]
    /\ UNCHANGED <<desired, provided, due, pc, obj, listed, out, faults>>

\* Mutant: an error is not returned to the queue.
EndPassAnyway ==
    /\ pc = "patch" /\ pending = {}
    /\ pc' = "idle" /\ listed' = {} /\ out' = "ok"
    /\ due' = IF due = "no" THEN "interval" ELSE due
    /\ UNCHANGED <<desired, provided, status, obj, pending, faults>>

\* An error comes back at once; after a panic a new process lists all targets;
\* a success comes back after its interval, if there is one.
EndPass ==
    /\ pc = "patch" /\ pending = {}
    /\ pc' = "idle" /\ listed' = {} /\ out' = "ok"
    /\ due' = IF out # "ok" THEN "now"
              ELSE IF due = "no" /\ obj.spec.periodic THEN "interval" ELSE due
    /\ UNCHANGED <<desired, provided, status, obj, pending, faults>>

-----------------------------------------------------------------------------
(* reconcile *)

\* ProgressiveStatus deletes Stalled and sets Reconciling; Ready becomes Unknown
\* when it is absent.  A new generation is announced before anything is done.
Begin ==
    /\ pc = "idle" /\ due # "no"
    /\ due' = "no"
    /\ obj' = [spec |-> spec, gen |-> gen, cond |->
                 [ready |-> IF status.cond.ready = "Absent" THEN "Unknown" ELSE status.cond.ready,
                  recon |-> TRUE, stalled |-> FALSE]]
    /\ pc' = IF gen # status.observed THEN "progress" ELSE "access"
    /\ UNCHANGED <<desired, provided, status, listed, out, pending, faults>>

PatchProgress ==
    /\ pc = "progress" /\ pc' = "access"
    /\ status' = [status EXCEPT !.cond = obj.cond]
    /\ UNCHANGED <<desired, provided, due, obj, listed, out, pending, faults>>

\* Mutant: the service account is created before its namespace.
AccountFirst ==
    /\ pc = "access" /\ obj.spec.access = "kubernetes"
    /\ pc' = IF obj.spec.account THEN "secrets" ELSE "namespace"
    /\ UNCHANGED <<desired, provided, status, due, obj, listed, out, pending, faults>>

ReadAccess ==
    /\ pc = "access"
    /\ \/ /\ obj.spec.access = "kubernetes"
          /\ pc' = "namespace" /\ UNCHANGED <<obj, out, pending>>
       \/ /\ obj.spec.access = "malformed"
          /\ Return([NotReady(obj.cond) EXCEPT !.recon = FALSE, !.stalled = TRUE], "error")
       \/ /\ obj.spec.access = "absent"
          /\ Return(obj.cond, "panic")
    /\ UNCHANGED <<desired, provided, status, due, listed, faults>>

CreateNamespace ==
    /\ pc = "namespace"
    /\ namespaces' = namespaces \cup {obj.spec.ns}
    /\ pc' = IF obj.spec.account THEN "secrets" ELSE "finish"
    /\ UNCHANGED <<desired, accounts, status, due, obj, listed, out, pending, faults>>

ListSecrets ==
    /\ pc = "secrets"
    /\ listed' = IF obj.spec.selector THEN secrets[obj.spec.ns] ELSE {}
    /\ \/ /\ obj.spec.selector /\ listed' = {}
          /\ Return(NotReady(obj.cond), "error")
       \/ /\ obj.spec.selector => listed' # {}
          /\ pc' = "account" /\ UNCHANGED <<obj, out, pending>>
    /\ UNCHANGED <<desired, provided, status, due, faults>>

\* Mutant: an existing account is left as it is.
CreateAccount ==
    /\ pc = "account" /\ pc' = "finish"
    /\ accounts' = [accounts EXCEPT ![obj.spec.ns] = IF @ = None THEN listed ELSE @]
    /\ UNCHANGED <<desired, namespaces, status, due, obj, listed, out, pending, faults>>

CreateOrUpdateAccount ==
    /\ pc = "account" /\ pc' = "finish"
    /\ accounts' = [accounts EXCEPT ![obj.spec.ns] = listed]
    /\ UNCHANGED <<desired, namespaces, status, due, obj, listed, out, pending, faults>>

Finish ==
    /\ pc = "finish"
    /\ Return([obj.cond EXCEPT !.ready = "Absent"], "ok")
    /\ UNCHANGED <<desired, provided, status, due, listed, faults>>

Reconcile ==
    \/ Begin \/ PatchProgress \/ ReadAccess \/ CreateNamespace \/ ListSecrets
    \/ CreateOrUpdateAccount \/ Finish \/ (\E what \in {"status", "conditions"} : PatchStatus(what))
    \/ EndPass

-----------------------------------------------------------------------------
(* What goes wrong, at most MaxFaults times. *)

\* Ready is not touched when the patch of a new generation fails.
RequestFails ==
    /\ faults < MaxFaults /\ faults' = faults + 1
    /\ \/ pc = "progress" /\ Return(obj.cond, "error")
       \/ pc \in {"namespace", "secrets", "account"} /\ Return(NotReady(obj.cond), "error")
       \/ /\ pc = "patch" /\ \E what \in pending : pending' = pending \ {what}
          /\ out' = (IF out = "panic" THEN out ELSE "error") /\ UNCHANGED <<pc, obj>>
    /\ UNCHANGED <<desired, provided, status, due, listed>>

Restart ==
    /\ faults < MaxFaults /\ faults' = faults + 1
    /\ pc' = "idle" /\ listed' = {} /\ out' = "ok" /\ pending' = {} /\ due' = "now"
    /\ UNCHANGED <<desired, provided, status, obj>>

-----------------------------------------------------------------------------
(* What others do. *)

UpdateTarget(s) ==
    /\ gen < MaxGen /\ gen' = gen + 1 /\ spec' = s /\ due' = "now"
    /\ UNCHANGED <<secrets, changes, provided, status, pc, obj, listed, out, pending, faults>>

\* The controller does not watch secrets.
ChangeSecrets(n, s) ==
    /\ changes < MaxChanges /\ changes' = changes + 1
    /\ secrets' = [secrets EXCEPT ![n] = s]
    /\ UNCHANGED <<spec, gen, provided, status, due, pc, obj, listed, out, pending, faults>>

Next ==
    \/ Reconcile \/ RequestFails \/ Restart
    \/ \E s \in Specs : UpdateTarget(s)
    \/ \E n \in Namespaces, s \in SUBSET Secrets : ChangeSecrets(n, s)

Spec == Init /\ [][Next]_vars

\* The queue returns a target that is in it, and the interval passes.
FairSpec == Spec /\ WF_vars(Reconcile)

-----------------------------------------------------------------------------
(* Safety *)

Provisioned ==
    /\ spec.access = "kubernetes" /\ spec.ns \in namespaces
    /\ spec.account => accounts[spec.ns] # None
    /\ spec.account /\ spec.selector => accounts[spec.ns] # {}

\* A target that comes back no sooner than after its interval is provisioned and
\* reports so for its generation: a status written by half, an update during the
\* pass, an interval of zero and a crash are always followed by another pass.
SettledIsProvisioned ==
    pc = "idle" /\ due # "now" =>
        Provisioned /\ IsReady(status.cond) /\ status.observed = gen

-----------------------------------------------------------------------------
(* Liveness *)

Usable ==
    /\ spec.access = "kubernetes" /\ spec.periodic
    /\ spec.account /\ spec.selector => secrets[spec.ns] # {}

Settled ==
    /\ IsReady(status.cond) /\ status.observed = gen /\ spec.ns \in namespaces
    /\ spec.account => accounts[spec.ns] = IF spec.selector THEN secrets[spec.ns] ELSE {}

\* A target with an interval follows its spec and the secrets in the end,
\* whatever changed between listing the secrets and using them.
FollowsSecrets == <>[]Usable => <>[]Settled
=============================================================================
