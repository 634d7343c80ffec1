---------------------------- MODULE Target_proofs ----------------------------
(* Theorems of the Target controller, for any namespaces, secrets and specs.  *)
EXTENDS Target, TLAPS

\* A service account is only written to a namespace that this pass has created.
InNamespace == pc \in {"secrets", "account"} => obj.spec.ns \in namespaces

TypeInv == TypeOK /\ InNamespace

LEMMA NewStatusType == NewStatus \in Status
BY ConstantsAssumption DEF ConstantsAssumption, NewStatus, Status, Conditions

\* What setStatus leaves are conditions.
LEMMA FinalType ==
    ASSUME NEW c \in Conditions, NEW o PROVE Final(c, o) \in Conditions
<1> DEFINE recon == c.recon /\ ~c.stalled /\ ~Successful(o)
<1>1. recon \in BOOLEAN
  BY Zenon DEF Conditions
<1> QED
  BY <1>1 DEF Final, Conditions

LEMMA ReturnType ==
    ASSUME TypeOK, NEW c \in Conditions, NEW o \in {"ok", "error", "panic"}, Return(c, o)
    PROVE  /\ pc' = "patch" /\ out' \in {"ok", "error", "panic"}
           /\ obj' \in [spec : AllSpecs, gen : 1..MaxGen, cond : Conditions]
           /\ pending' \subseteq {"status", "conditions"}
<1>1. Final(c, o) \in Conditions
  BY FinalType
<1> QED
  BY <1>1 DEF TypeOK, Return

LEMMA TypeInvariant == Spec => []TypeInv
<1>1. Init => TypeInv
  <2> SUFFICES ASSUME Init PROVE TypeInv
    OBVIOUS
  <2>1. spec \in AllSpecs /\ status \in Status /\ NewStatus.cond \in Conditions
    BY ConstantsAssumption, NewStatusType DEF Init, ConstantsAssumption, Status
  <2>2. obj \in [spec : AllSpecs, gen : 1..MaxGen, cond : Conditions]
    BY <2>1, ConstantsAssumption DEF Init, ConstantsAssumption
  <2> QED
    BY <2>1, <2>2, ConstantsAssumption DEF Init, ConstantsAssumption, TypeInv, TypeOK, InNamespace
<1>2. TypeInv /\ [Next]_vars => TypeInv'
  <2> SUFFICES ASSUME TypeInv, [Next]_vars PROVE TypeInv'
    OBVIOUS
  <2>t. obj.cond \in Conditions /\ obj.spec \in AllSpecs /\ status.cond \in Conditions
    BY DEF TypeInv, TypeOK, Status
  <2> USE ConstantsAssumption
      DEF ConstantsAssumption, TypeInv, InNamespace, TypeOK, desired, provided
  <2>n. NotReady(obj.cond) \in Conditions
    BY <2>t DEF NotReady, Conditions
  <2>1. CASE Begin
    <3>1. obj'.cond \in Conditions /\ obj' \in [spec : AllSpecs, gen : 1..MaxGen, cond : Conditions]
      BY <2>1, <2>t DEF Begin, Conditions
    <3> QED
      BY <2>1, <3>1 DEF Begin
  <2>2. CASE PatchProgress
    BY <2>2, <2>t DEF PatchProgress, Status
  <2>3. CASE ReadAccess
    <3>1. CASE obj.spec.access = "kubernetes"
      BY <2>3, <3>1 DEF ReadAccess
    <3>2. CASE obj.spec.access = "malformed"
      <4>1. [NotReady(obj.cond) EXCEPT !.recon = FALSE, !.stalled = TRUE] \in Conditions
        BY <2>n DEF Conditions
      <4> QED
        BY <2>3, <3>2, <4>1, ReturnType DEF ReadAccess
    <3>3. CASE obj.spec.access = "absent"
      BY <2>3, <3>3, <2>t, ReturnType DEF ReadAccess
    <3> QED
      BY <2>3, <3>1, <3>2, <3>3 DEF ReadAccess
  <2>4. CASE CreateNamespace
    BY <2>4, <2>t DEF CreateNamespace, AllSpecs
  <2>5. CASE ListSecrets
    <3>1. listed' \subseteq Secrets
      BY <2>5, <2>t DEF ListSecrets, AllSpecs
    <3>2. CASE obj.spec.selector /\ listed' = {}
      BY <2>5, <3>1, <3>2, <2>n, ReturnType DEF ListSecrets
    <3>3. CASE obj.spec.selector => listed' # {}
      BY <2>5, <3>1, <3>3 DEF ListSecrets
    <3> QED
      BY <3>2, <3>3
  <2>6. CASE CreateOrUpdateAccount
    <3>1. accounts' \in [Namespaces -> {None} \cup SUBSET Secrets]
      BY <2>6 DEF CreateOrUpdateAccount
    <3>2. \A n \in Namespaces : accounts'[n] # None => n \in namespaces'
      BY <2>6 DEF CreateOrUpdateAccount
    <3> QED
      BY <2>6, <3>1, <3>2 DEF CreateOrUpdateAccount
  <2>7. CASE Finish
    <3>1. [obj.cond EXCEPT !.ready = "Absent"] \in Conditions
      BY <2>t DEF Conditions
    <3> QED
      BY <2>7, <3>1, ReturnType DEF Finish
  <2>8. ASSUME NEW what \in {"status", "conditions"}, PatchStatus(what) PROVE TypeInv'
    <3>1. ObservedGeneration \in 0..MaxGen
      BY DEF ObservedGeneration, Status
    <3>2. status' \in Status
      BY <2>8, <3>1, <2>t DEF PatchStatus, Status
    <3> QED
      BY <2>8, <3>2 DEF PatchStatus
  <2>9. CASE EndPass
    BY <2>9 DEF EndPass
  <2>10. CASE RequestFails
    <3>1. CASE pc = "progress"
      BY <2>10, <3>1, <2>t, ReturnType DEF RequestFails
    <3>2. CASE pc \in {"namespace", "secrets", "account"}
      BY <2>10, <3>2, <2>n, ReturnType DEF RequestFails
    <3>3. CASE pc = "patch"
      <4>1. out' \in {"ok", "error", "panic"} /\ pending' \subseteq {"status", "conditions"}
        BY <2>10, <3>3 DEF RequestFails
      <4> QED
        BY <2>10, <3>3, <4>1 DEF RequestFails
    <3> QED
      BY <2>10, <3>1, <3>2, <3>3 DEF RequestFails
  <2>11. CASE Restart
    BY <2>11 DEF Restart
  <2>12. ASSUME NEW s \in Specs, UpdateTarget(s) PROVE TypeInv'
    BY <2>12 DEF UpdateTarget
  <2>13. ASSUME NEW n \in Namespaces, NEW s \in SUBSET Secrets, ChangeSecrets(n, s)
         PROVE TypeInv'
    <3>1. secrets' \in [Namespaces -> SUBSET Secrets]
      BY <2>13 DEF ChangeSecrets
    <3> QED
      BY <2>13, <3>1 DEF ChangeSecrets
  <2>14. CASE UNCHANGED vars
    BY <2>14 DEF vars
  <2> QED
    BY <2>1, <2>2, <2>3, <2>4, <2>5, <2>6, <2>7, <2>8, <2>9, <2>10, <2>11, <2>12, <2>13, <2>14
    DEF Next, Reconcile
<1> QED
  BY <1>1, <1>2, PTL DEF Spec

\* Types: a service account exists only in a namespace that exists, and every
\* variable stays within the values that its comment names.
THEOREM TypeCorrect == Spec => []TypeOK
<1>1. TypeInv => TypeOK
  BY DEF TypeInv
<1> QED
  BY <1>1, TypeInvariant, PTL

-----------------------------------------------------------------------------
(* What a pass has done so far *)

\* The spec in memory is provisioned.
DoneInMemory ==
    /\ obj.spec.access = "kubernetes" /\ obj.spec.ns \in namespaces
    /\ obj.spec.account => accounts[obj.spec.ns] # None
    /\ obj.spec.account /\ obj.spec.selector => accounts[obj.spec.ns] # {}

\* A pass that nothing interrupted works on the current target; each stage knows
\* what the stages before it have done; a pass that is going to end well has done
\* all, and what it has not yet reported is still to be sent.
PassInv ==
    /\ due = "interval" => pc = "idle"
    /\ pc # "idle" /\ due = "no" => obj.spec = spec /\ obj.gen = gen
    /\ pc \notin {"idle", "patch"} => ~obj.cond.stalled
    /\ pc \in {"namespace", "secrets", "account", "finish"} => obj.spec.access = "kubernetes"
    /\ pc \in {"secrets", "account"} => obj.spec.ns \in namespaces
    /\ pc = "account" /\ obj.spec.selector => listed # {}
    /\ pc = "finish" => DoneInMemory
    /\ pc = "patch" /\ out = "ok" =>
         /\ DoneInMemory /\ IsReady(obj.cond)
         /\ "conditions" \notin pending => status.cond = obj.cond
         /\ "status" \notin pending => status.observed = obj.gen

SettledInv == PassInv /\ SettledIsProvisioned

\* A pass that ends well has left its target ready.
LEMMA FinalOfFinished ==
    ASSUME NEW c \in Conditions, ~c.stalled, c.ready = "Absent"
    PROVE  IsReady(Final(c, "ok"))
BY DEF Conditions, Final, Successful, IsReady

LEMMA SettledInvariant == Spec => []SettledInv
<1>1. Init => SettledInv
  BY DEF Init, SettledInv, PassInv, SettledIsProvisioned
<1>2. TypeOK /\ TypeOK' /\ SettledInv /\ [Next]_vars => SettledInv'
  <2> SUFFICES ASSUME TypeOK, TypeOK', SettledInv, [Next]_vars PROVE SettledInv'
    OBVIOUS
  <2>t. /\ status \in Status /\ obj \in [spec : AllSpecs, gen : 1..MaxGen, cond : Conditions]
        /\ accounts \in [Namespaces -> {None} \cup SUBSET Secrets]
        /\ \A n \in Namespaces : accounts[n] # None => n \in namespaces
        /\ listed \subseteq Secrets /\ due \in {"now", "interval", "no"}
        /\ obj.spec.ns \in Namespaces
    BY DEF TypeOK, AllSpecs
  <2>c. obj.cond \in Conditions /\ status.cond \in Conditions
    BY <2>t DEF Status
  <2> USE <2>t DEF SettledInv, PassInv, SettledIsProvisioned, desired, provided
  <2>1. CASE Begin
    BY <2>1 DEF Begin
  <2>2. CASE PatchProgress
    BY <2>2 DEF PatchProgress
  <2>3. CASE ReadAccess
    BY <2>3 DEF ReadAccess, Return
  <2>4. CASE CreateNamespace
    <3>1. CASE obj.spec.account
      BY <2>4, <3>1 DEF CreateNamespace
    <3>2. CASE ~obj.spec.account
      BY <2>4, <3>2 DEF CreateNamespace, DoneInMemory
    <3> QED
      BY <3>1, <3>2
  <2>5. CASE ListSecrets
    BY <2>5 DEF ListSecrets, Return
  <2>6. CASE CreateOrUpdateAccount
    <3>1. accounts'[obj.spec.ns] = listed
      BY <2>6 DEF CreateOrUpdateAccount
    <3>2. DoneInMemory'
      BY <2>6, <3>1, ConstantsAssumption DEF CreateOrUpdateAccount, DoneInMemory, ConstantsAssumption
    <3> QED
      BY <2>6, <3>2 DEF CreateOrUpdateAccount
  <2>7. CASE Finish
    <3> DEFINE c == [obj.cond EXCEPT !.ready = "Absent"]
    <3>1. c \in Conditions /\ ~c.stalled /\ c.ready = "Absent"
      BY <2>7, <2>c DEF Finish, Conditions
    <3>2. IsReady(Final(c, "ok"))
      BY <3>1, FinalOfFinished
    <3>3. obj' = [obj EXCEPT !.cond = Final(c, "ok")]
      BY <2>7 DEF Finish, Return
    <3>4. IsReady(obj'.cond)
      BY <3>2, <3>3
    <3>5. DoneInMemory'
      BY <2>7, <3>3 DEF Finish, DoneInMemory
    <3> QED
      BY <2>7, <3>3, <3>4, <3>5 DEF Finish, Return
  <2>8. ASSUME NEW what \in {"status", "conditions"}, PatchStatus(what) PROVE SettledInv'
    <3>1. /\ what = "conditions" => status'.cond = obj.cond /\ status'.observed = status.observed
          /\ what = "status" => status'.observed = ObservedGeneration /\ status'.cond = status.cond
      BY <2>8 DEF PatchStatus, Status
    <3>2. IsReady(obj.cond) => ObservedGeneration = obj.gen
      BY DEF ObservedGeneration
    <3>3. DoneInMemory => DoneInMemory'
      BY <2>8 DEF PatchStatus, DoneInMemory
    <3> QED
      BY <2>8, <3>1, <3>2, <3>3 DEF PatchStatus
  <2>9. CASE EndPass
    <3>1. due' # "now" => out = "ok" /\ due = "no"
      BY <2>9 DEF EndPass
    <3>2. due' # "now" => DoneInMemory /\ obj.spec = spec /\ obj.gen = gen /\ IsReady(status.cond)
                          /\ status.observed = obj.gen
      BY <2>9, <3>1 DEF EndPass
    <3>3. due' # "now" => Provisioned'
      BY <2>9, <3>2 DEF EndPass, DoneInMemory, Provisioned
    <3> QED
      BY <2>9, <3>2, <3>3 DEF EndPass
  <2>10. CASE RequestFails
    BY <2>10 DEF RequestFails, Return
  <2>11. CASE Restart
    BY <2>11 DEF Restart
  <2>12. ASSUME NEW s \in Specs, UpdateTarget(s) PROVE SettledInv'
    BY <2>12 DEF UpdateTarget, DoneInMemory
  <2>13. ASSUME NEW n \in Namespaces, NEW s \in SUBSET Secrets, ChangeSecrets(n, s)
         PROVE SettledInv'
    BY <2>13 DEF ChangeSecrets, DoneInMemory, Provisioned
  <2>14. CASE UNCHANGED vars
    BY <2>14 DEF vars, DoneInMemory, Provisioned
  <2> QED
    BY <2>1, <2>2, <2>3, <2>4, <2>5, <2>6, <2>7, <2>8, <2>9, <2>10, <2>11, <2>12, <2>13, <2>14
    DEF Next, Reconcile
<1> QED
  BY <1>1, <1>2, TypeCorrect, PTL DEF Spec

\* Settled is provisioned (controllers/target_controller.go): nothing that a
\* successful pass did is undone before the next one, and every other pass is
\* followed by one at once.
THEOREM SettledWasProvisioned == Spec => []SettledIsProvisioned
<1>1. SettledInv => SettledIsProvisioned
  BY DEF SettledInv
<1> QED
  BY <1>1, SettledInvariant, PTL
=============================================================================
