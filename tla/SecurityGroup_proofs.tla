------------------------ MODULE SecurityGroup_proofs -----------------------
(***************************************************************************)
(* Theorems about SecurityGroup, for every set of keys, grants and rule    *)
(* lists, every batch size and every number of faults, edits and drifts.   *)
(***************************************************************************)
EXTENDS SecurityGroup, TLAPS

\* The group never outlives the finalizer.  Inductive with TypeOK.
Ownership ==
  /\ sg.id # 0 => cr.managed /\ cr.phase # "gone"
  /\ At("create") => cr.managed /\ cr.phase # "gone"
  /\ At("release") => sg.id = 0

\* What the worker knows at each point of a pass, whoever interferes.
WorkerShape ==
  /\ w.pc # "idle" => w.rules \in SpecRules
  /\ At("describe") \/ At("found") => w.id # 0
  /\ w.pc \in {"lookup", "describe", "found"} => w.mode # "create"
  /\ w.pc \in {"lookup", "describe", "found", "manage", "create", "revokeDefault"}
       => w.revoke = {} /\ w.authorize = {}
  /\ At("revokeDefault") => w.mode = "create"
  /\ At("untag") \/ At("tag") => w.mode = "update"
  /\ At("sync") => /\ WellFormed(w.authorize)
                   /\ w.mode = "delete" => w.authorize = {}

\* What the worker knows of EC2 while nobody interferes.  The heart of it is
\* the third conjunct: what remains after the revocations and what is still to
\* be authorized are disjoint, and together they are what was declared.
Remaining == sg.perms \ PermsOf(w.revoke)

Progress ==
  ~w.interfered =>
    /\ At("found") => sg.id = w.id /\ sg.perms = w.seenPerms /\ sg.tags = w.seenTags
    /\ At("revokeDefault") => /\ sg.id = w.id /\ sg.tags = w.tags
                              /\ sg.perms = {DefaultPerm}
    /\ At("sync") /\ w.mode # "delete" =>
         /\ sg.id = w.id
         /\ Remaining \cup PermsOf(w.authorize) = PermsOf(w.rules)
         /\ Remaining \cap PermsOf(w.authorize) = {}
         /\ sg.tags = IF w.mode = "create" THEN w.tags ELSE w.seenTags
    /\ (At("untag") \/ At("tag")) /\ w.resolved /\ w.owner =>
         sg.id = w.id /\ sg.perms = PermsOf(w.rules)
    /\ At("untag") => sg.tags = w.seenTags
    /\ At("tag") => sg.tags = w.seenTags \cap w.tags

\* Inductive with TypeOK.
Inner == WorkerShape /\ Progress /\ SyncedIsExact

----------------------------------------------------------------------------
(* Lemmas about the pure helpers.                                          *)

LEMMA PermsOfType ==
  ASSUME NEW R \in SUBSET RawRule
  PROVE  PermsOf(R) \in SUBSET Perm
BY DEF PermsOf, RawRule, Perm

\* A permission belongs to what a list means iff one of its rules grants it.
LEMMA PermsOfMember ==
  ASSUME NEW R, NEW p
  PROVE  p \in PermsOf(R) <=> \E r \in R : \E g \in r.grants : p = <<r.key, g>>
BY DEF PermsOf

LEMMA PermsOfUnion ==
  ASSUME NEW R, NEW S
  PROVE  PermsOf(R \cup S) = PermsOf(R) \cup PermsOf(S)
BY DEF PermsOf

\* Disjoint parts of a well-formed list mean disjoint permissions.
LEMMA WellFormedDisjoint ==
  ASSUME NEW R, WellFormed(R), NEW S \in SUBSET R, NEW T \in SUBSET R, S \cap T = {}
  PROVE  PermsOf(S) \cap PermsOf(T) = {}
<1> SUFFICES ASSUME NEW p \in PermsOf(S), p \in PermsOf(T) PROVE FALSE
  OBVIOUS
<1>1. PICK s \in S : \E g \in s.grants : p = <<s.key, g>>
  BY PermsOfMember
<1>2. PICK t \in T : \E g \in t.grants : p = <<t.key, g>>
  BY PermsOfMember
<1>3. s.key = t.key /\ s.grants \cap t.grants # {}
  BY <1>1, <1>2
<1>4. s = t
  BY <1>3 DEF WellFormed
<1> QED BY <1>4

\* What EC2 reads back is a well-formed list of rules, one per key, that means
\* what EC2 holds.
LEMMA ReadBack ==
  ASSUME NEW P \in SUBSET Perm
  PROVE  /\ addRulesToSpec(P) \in SUBSET RawRule
         /\ WellFormed(addRulesToSpec(P))
         /\ PermsOf(addRulesToSpec(P)) = P
<1> DEFINE L == addRulesToSpec(P)
<1>1. L \in SUBSET RawRule
  <2> SUFFICES ASSUME NEW p \in P
               PROVE  [key |-> p[1], sp |-> "aws",
                       grants |-> {g \in Grants : <<p[1], g>> \in P}] \in RawRule
    BY DEF addRulesToSpec
  <2>1. p[1] \in Keys /\ p[2] \in Grants /\ p = <<p[1], p[2]>>
    BY DEF Perm
  <2>2. p[2] \in {g \in Grants : <<p[1], g>> \in P}
    BY <2>1
  <2> QED BY <2>1, <2>2 DEF RawRule
<1>2. WellFormed(L)
  <2>1. \A r \in L : r = [key |-> r.key, sp |-> "aws",
                         grants |-> {g \in Grants : <<r.key, g>> \in P}]
    BY DEF addRulesToSpec
  <2> QED BY <2>1 DEF WellFormed
<1>3. ASSUME NEW p \in PermsOf(L) PROVE p \in P
  <2>1. PICK r \in L : \E g \in r.grants : p = <<r.key, g>>
    BY <1>3, PermsOfMember
  <2> QED BY <2>1 DEF addRulesToSpec
<1>4. ASSUME NEW p \in P PROVE p \in PermsOf(L)
  <2> DEFINE r == [key |-> p[1], sp |-> "aws",
                   grants |-> {g \in Grants : <<p[1], g>> \in P}]
  <2>1. p[1] \in Keys /\ p[2] \in Grants /\ p = <<p[1], p[2]>>
    BY DEF Perm
  <2>2. r \in L
    BY DEF addRulesToSpec
  <2>3. p[2] \in r.grants /\ p = <<r.key, p[2]>>
    BY <2>1
  <2> QED BY <2>2, <2>3, PermsOfMember
<1> QED BY <1>1, <1>2, <1>3, <1>4

\* The plan of syncSGRules: after the revocations nothing to be authorized is
\* left, and the authorizations make up what was declared.
LEMMA PlanExact ==
  ASSUME NEW P \in SUBSET Perm, NEW D \in SUBSET RawRule, WellFormed(D)
  PROVE  LET rest == P \ PermsOf(toDelete(D, addRulesToSpec(P)))
             add  == PermsOf(toAdd(D, addRulesToSpec(P)))
         IN  rest \cup add = PermsOf(D) /\ rest \cap add = {}
<1> DEFINE L == addRulesToSpec(P)
           C == L \cap D
           R == toDelete(D, L)
           A == toAdd(D, L)
<1>1. /\ L = C \cup R /\ C \cap R = {} /\ C \in SUBSET L /\ R \in SUBSET L
      /\ D = C \cup A /\ C \cap A = {} /\ C \in SUBSET D /\ A \in SUBSET D
  BY DEF toDelete, toAdd
<1>2. WellFormed(L) /\ PermsOf(L) = P
  BY ReadBack
<1> HIDE DEF L, C, R, A
<1>3. P = PermsOf(C) \cup PermsOf(R)
  BY <1>1, <1>2, PermsOfUnion
<1>4. PermsOf(C) \cap PermsOf(R) = {}
  BY <1>1, <1>2, WellFormedDisjoint
<1>5. PermsOf(D) = PermsOf(C) \cup PermsOf(A)
  BY <1>1, PermsOfUnion
<1>6. PermsOf(C) \cap PermsOf(A) = {}
  BY <1>1, WellFormedDisjoint
<1>7. (P \ PermsOf(R)) \cup PermsOf(A) = PermsOf(D) /\ (P \ PermsOf(R)) \cap PermsOf(A) = {}
  BY <1>3, <1>4, <1>5, <1>6
<1> QED BY <1>7 DEF R, A, L

\* With every reference resolved, the canonical form loses nothing.
LEMMA CanonicalExact ==
  ASSUME NEW D \in SUBSET RawRule
  PROVE  canonicalPerms(D, TRUE) = PermsOf(D)
<1>1. \A p \in PermsOf(D) : p = <<p[1], p[2]>>
  BY PermsOfType DEF Perm
<1> QED BY <1>1 DEF canonicalPerms, canonicalGrant
----------------------------------------------------------------------------
(* Type correctness.                                                       *)

USE ConstantsAssumption DEF At

LEMMA BatchSubset ==
  ASSUME NEW R, NEW b \in Batches(R)
  PROVE  b \in SUBSET R
BY DEF Batches, NextDirection

\* An accepted AWS call keeps the types if its effect and its successor do.
LEMMA CallType ==
  ASSUME TypeOK,
         NEW s \in [id: Nat, perms: SUBSET Perm, tags: SUBSET Tags],
         NEW n \in WorkerType, Call(s, n) \/ Refused \/ Go(n)
  PROVE  /\ sg' \in [id: Nat, perms: SUBSET Perm, tags: SUBSET Tags]
         /\ w' \in WorkerType
         /\ faults' \in Nat
<1>1. Failed \in WorkerType
  BY DEF Failed, TypeOK, WorkerType, Labels
<1> QED BY <1>1 DEF Call, Refused, Go, TypeOK

LEMMA IdleType == IdleWorker \in WorkerType
BY DEF IdleWorker, WorkerType, Labels, Modes

CRType == [phase: {"live", "deleting", "gone"}, managed: BOOLEAN, id: Nat,
           owner: BOOLEAN, rules: SpecRules, tags: SpecTags, synced: BOOLEAN]

LEMMA NewCRType ==
  ASSUME NEW rules \in SpecRules, NEW tags \in SpecTags
  PROVE  NewCR(rules, tags) \in CRType
BY DEF NewCR, CRType

LEMMA InitType == Init => TypeOK
<1> SUFFICES ASSUME Init PROVE TypeOK
  OBVIOUS
<1>1. cr \in CRType
  BY NewCRType DEF Init
<1>2. sg \in [id: Nat, perms: SUBSET Perm, tags: SUBSET Tags]
  BY DEF Init, NoGroup
<1>3. w \in WorkerType
  BY IdleType DEF Init
<1>4. nextId \in Nat \ {0} /\ faults \in Nat /\ edits \in Nat /\ drifts \in Nat
  BY DEF Init
<1>5. inUse \in BOOLEAN /\ refReady \in BOOLEAN
  BY DEF Init
<1> QED BY <1>1, <1>2, <1>3, <1>4, <1>5 DEF TypeOK, CRType

\* The steps that make no AWS call that changes the group.
LEMMA LocalType ==
  ASSUME TypeOK,
         \/ Begin \/ getSecurityGroupID \/ sdkFind \/ ReadFails \/ setResourceManaged
         \/ customUpdateSecurityGroup \/ syncSGRules \/ sdkDelete
         \/ setResourceUnmanaged \/ PatchStatus \/ Crash
  PROVE  TypeOK'
<1> USE DEF TypeOK, Go, env
<1>1. CASE Begin
  <2> DEFINE label == IF cr.id = 0 THEN "lookup" ELSE "describe"
             kind  == IF cr.phase = "deleting" THEN "delete" ELSE "update"
  <2>1. label \in Labels /\ kind \in Modes
    BY DEF Labels, Modes
  <2>2. cr.rules \in SUBSET RawRule /\ cr.tags \in SUBSET Tags
    OBVIOUS
  <2>3. w' \in WorkerType
    BY <1>1, <2>1, <2>2, IdleType DEF Begin, WorkerType
  <2> QED BY <1>1, <2>3 DEF Begin
<1>2. CASE getSecurityGroupID
  BY <1>2 DEF getSecurityGroupID, NotFound, WorkerType, Labels
<1>3. CASE sdkFind
  <2>1. CASE sg.id = w.id
    <3>1. "found" \in Labels
      BY DEF Labels
    <3>2. sg.perms \in SUBSET Perm /\ sg.tags \in SUBSET Tags
      OBVIOUS
    <3>3. [w EXCEPT !.pc = "found", !.seenPerms = sg.perms, !.seenTags = sg.tags] \in WorkerType
      BY <3>1, <3>2 DEF WorkerType
    <3>4. w' \in WorkerType
      BY <1>3, <2>1, <3>3 DEF sdkFind
    <3> QED BY <1>3, <2>1, <3>4 DEF sdkFind
  <2>2. CASE sg.id # w.id
    <3>1. w' = NotFound \/ w' = Failed
      BY <1>3, <2>2 DEF sdkFind, Refused
    <3>2. w' \in WorkerType
      BY <3>1 DEF NotFound, Failed, WorkerType, Labels
    <3> QED BY <1>3, <2>2, <3>2 DEF sdkFind, Refused
  <2> QED BY <2>1, <2>2
<1>4. CASE ReadFails
  BY <1>4 DEF ReadFails, Failed, WorkerType, Labels
<1>5. CASE setResourceManaged
  <2>1. w' \in WorkerType
    <3>1. [w EXCEPT !.pc = "create"] \in WorkerType
      BY DEF WorkerType, Labels
    <3> QED BY <1>5, <3>1, IdleType DEF setResourceManaged
  <2>2. cr' \in CRType
    BY <1>5 DEF setResourceManaged, CRType
  <2> QED BY <1>5, <2>1, <2>2 DEF setResourceManaged, CRType
<1>6. CASE customUpdateSecurityGroup
  <2>1. /\ addRulesToSpec(w.seenPerms) \in SUBSET RawRule
        /\ w.rules \in SUBSET RawRule
    BY ReadBack DEF WorkerType
  <2>2. /\ toDelete(w.rules, addRulesToSpec(w.seenPerms)) \in SUBSET RawRule
        /\ toAdd(w.rules, addRulesToSpec(w.seenPerms)) \in SUBSET RawRule
    BY <2>1 DEF toDelete, toAdd
  <2> QED BY <1>6, <2>2 DEF customUpdateSecurityGroup, WorkerType, Labels
<1>7. CASE syncSGRules
  BY <1>7 DEF syncSGRules, WorkerType, Labels
<1>8. CASE sdkDelete
  <2>1. toDelete({}, addRulesToSpec(w.seenPerms)) \in SUBSET RawRule
    BY ReadBack DEF toDelete, WorkerType
  <2> QED BY <1>8, <2>1 DEF sdkDelete, WorkerType, Labels
<1>9. CASE setResourceUnmanaged
  BY <1>9, IdleType DEF setResourceUnmanaged
<1>10. CASE PatchStatus
  BY <1>10, IdleType DEF WorkerType, PatchStatus
<1>11. CASE Crash
  BY <1>11, IdleType DEF Crash
<1> QED BY <1>1, <1>2, <1>3, <1>4, <1>5, <1>6, <1>7, <1>8, <1>9, <1>10, <1>11

\* The steps that change the group.
LEMMA CallsType ==
  ASSUME TypeOK,
         \/ sdkCreate \/ deleteDefaultSecurityGroupRule \/ deleteSecurityGroupRules
         \/ createSecurityGroupRules \/ DeleteTags \/ CreateTags \/ DeleteSecurityGroup
  PROVE  TypeOK'
<1> DEFINE SgType == [id: Nat, perms: SUBSET Perm, tags: SUBSET Tags]
<1>1. CASE sdkCreate
  <2>1. [id |-> nextId, perms |-> {DefaultPerm}, tags |-> w.tags] \in SgType
    BY DEF TypeOK, WorkerType, Perm
  <2>2. [w EXCEPT !.pc = "revokeDefault", !.mode = "create", !.id = nextId] \in WorkerType
    BY DEF TypeOK, WorkerType, Labels, Modes
  <2>3. sg' \in SgType /\ w' \in WorkerType /\ faults' \in Nat
    BY <1>1, <2>1, <2>2, CallType DEF sdkCreate
  <2>4. nextId' \in Nat \ {0}
    BY <1>1 DEF sdkCreate, TypeOK
  <2> QED BY <1>1, <2>3, <2>4 DEF sdkCreate, TypeOK
<1>2. CASE deleteDefaultSecurityGroupRule
  <2> DEFINE n == IF referencesResolved(w.rules, w.resolved)
                  THEN [w EXCEPT !.pc = "sync", !.authorize = w.rules]
                  ELSE [w EXCEPT !.pc = "unsynced"]
  <2>1. n \in WorkerType
    BY DEF TypeOK, WorkerType, Labels
  <2>2. [sg EXCEPT !.perms = @ \ {DefaultPerm}] \in SgType
    BY DEF TypeOK
  <2>3. sg' \in SgType /\ w' \in WorkerType /\ faults' \in Nat
    BY <1>2, <2>1, <2>2, CallType DEF deleteDefaultSecurityGroupRule, Revoke
  <2> QED BY <1>2, <2>3 DEF deleteDefaultSecurityGroupRule, TypeOK, env
<1>3. CASE deleteSecurityGroupRules
  <2>1. PICK b \in Batches(w.revoke) :
               Revoke(PermsOf(b), [w EXCEPT !.revoke = @ \ b])
    BY <1>3 DEF deleteSecurityGroupRules
  <2>2. [w EXCEPT !.revoke = @ \ b] \in WorkerType
    BY DEF TypeOK, WorkerType
  <2>3. [sg EXCEPT !.perms = @ \ PermsOf(b)] \in SgType
    BY DEF TypeOK
  <2>4. sg' \in SgType /\ w' \in WorkerType /\ faults' \in Nat
    BY <2>1, <2>2, <2>3, CallType DEF Revoke
  <2> QED BY <1>3, <2>4 DEF deleteSecurityGroupRules, TypeOK, env
<1>4. CASE createSecurityGroupRules
  <2>1. CASE Refused
    <3>1. sg' \in SgType /\ w' \in WorkerType /\ faults' \in Nat
      BY <2>1, CallType DEF TypeOK
    <3> QED BY <1>4, <3>1 DEF createSecurityGroupRules, TypeOK, env
  <2>2. CASE ~Refused
    <3>1. PICK b \in Batches(w.authorize) :
                 Call([sg EXCEPT !.perms = @ \cup PermsOf(b)],
                      [w EXCEPT !.authorize = @ \ b])
      BY <1>4, <2>2 DEF createSecurityGroupRules
    <3>2. b \in SUBSET RawRule
      BY BatchSubset DEF TypeOK, WorkerType
    <3>3. [sg EXCEPT !.perms = @ \cup PermsOf(b)] \in SgType
      BY <3>2, PermsOfType DEF TypeOK
    <3>4. [w EXCEPT !.authorize = @ \ b] \in WorkerType
      BY DEF TypeOK, WorkerType
    <3>5. sg' \in SgType /\ w' \in WorkerType /\ faults' \in Nat
      BY <3>1, <3>3, <3>4, CallType
    <3> QED BY <1>4, <3>5 DEF createSecurityGroupRules, TypeOK, env
  <2> QED BY <2>1, <2>2
<1>5. CASE DeleteTags
  <2>1. [w EXCEPT !.pc = "tag"] \in WorkerType
    BY DEF TypeOK, WorkerType, Labels
  <2>2. [sg EXCEPT !.tags = @ \ (w.seenTags \ w.tags)] \in SgType
    BY DEF TypeOK
  <2>3. sg' \in SgType /\ w' \in WorkerType /\ faults' \in Nat
    BY <1>5, <2>1, <2>2, CallType DEF DeleteTags
  <2> QED BY <1>5, <2>3 DEF DeleteTags, TypeOK, env
<1>6. CASE CreateTags
  <2>1. [w EXCEPT !.pc = "synced"] \in WorkerType
    BY DEF TypeOK, WorkerType, Labels
  <2>2. [sg EXCEPT !.tags = @ \cup (w.tags \ w.seenTags)] \in SgType
    BY DEF TypeOK, WorkerType
  <2>3. sg' \in SgType /\ w' \in WorkerType /\ faults' \in Nat
    BY <1>6, <2>1, <2>2, CallType DEF CreateTags
  <2> QED BY <1>6, <2>3 DEF CreateTags, TypeOK, env
<1>7. CASE DeleteSecurityGroup
  <2>1. [w EXCEPT !.pc = "release"] \in WorkerType
    BY DEF TypeOK, WorkerType, Labels
  <2>2. NoGroup \in SgType
    BY DEF NoGroup
  <2>3. sg' \in SgType /\ w' \in WorkerType /\ faults' \in Nat
    BY <1>7, <2>1, <2>2, CallType DEF DeleteSecurityGroup
  <2> QED BY <1>7, <2>3 DEF DeleteSecurityGroup, TypeOK, env
<1> QED BY <1>1, <1>2, <1>3, <1>4, <1>5, <1>6, <1>7

LEMMA EnvironmentType ==
  ASSUME TypeOK, Environment
  PROVE  TypeOK'
<1> USE DEF TypeOK
<1>1. CASE EditSpec
  <2>1. cr' \in CRType
    BY <1>1 DEF EditSpec, CRType
  <2> QED BY <1>1, <2>1 DEF EditSpec, CRType
<1>2. CASE DeleteCR
  BY <1>2 DEF DeleteCR, env
<1>3. CASE RecreateCR
  <2>1. cr' \in CRType
    BY <1>3, NewCRType DEF RecreateCR
  <2> QED BY <1>3, <2>1 DEF RecreateCR, CRType
<1>4. CASE Drift
  <2>1. sg' \in [id: Nat, perms: SUBSET Perm, tags: SUBSET Tags]
    BY <1>4 DEF Drift, NoGroup
  <2>2. w' \in WorkerType
    BY <1>4 DEF Drift, Interfere, WorkerType
  <2> QED BY <1>4, <2>1, <2>2 DEF Drift
<1>5. CASE Attach
  BY <1>5 DEF Attach
<1>6. CASE Detach
  BY <1>6 DEF Detach
<1>7. CASE RefBecomesReady
  BY <1>7 DEF RefBecomesReady
<1> QED BY <1>1, <1>2, <1>3, <1>4, <1>5, <1>6, <1>7 DEF Environment

\* Type correctness of the whole model, every action included.
THEOREM TypeCorrect == Spec => []TypeOK
<1>1. TypeOK /\ [Next]_vars => TypeOK'
  <2> SUFFICES ASSUME TypeOK, [Next]_vars PROVE TypeOK'
    OBVIOUS
  <2>1. CASE UNCHANGED vars
    BY <2>1 DEF vars, env, TypeOK
  <2>2. CASE Next
    BY <2>2, LocalType, CallsType, EnvironmentType DEF Next, Reconcile
  <2> QED BY <2>1, <2>2
<1> QED BY <1>1, InitType, PTL DEF Spec
----------------------------------------------------------------------------
(* No group outlives its CR.  With MissingIsError the worker comes to       *)
(* setResourceUnmanaged only through a lookup by name that found nothing,   *)
(* or through a DeleteSecurityGroup that EC2 confirmed.                     *)

LEMMA OwnershipReconcile ==
  ASSUME MissingIsError, TypeOK, Ownership, Reconcile
  PROVE  Ownership'
<1> USE DEF Ownership, Go, Refused, Failed, env
<1>0. w \in WorkerType /\ nextId # 0
  BY DEF TypeOK
<1> USE DEF WorkerType
<1>1. CASE Begin
  BY <1>0, <1>1 DEF Begin, IdleWorker
<1>2. CASE getSecurityGroupID
  BY <1>0, <1>2 DEF getSecurityGroupID, NotFound
<1>3. CASE sdkFind
  <2>1. w'.pc \in {"found", "failed"} /\ UNCHANGED <<sg, cr>>
    BY <1>0, <1>3 DEF sdkFind
  <2> QED BY <2>1
<1>4. CASE setResourceManaged
  BY <1>0, <1>4 DEF setResourceManaged, IdleWorker, TypeOK
<1>5. CASE sdkCreate
  <2>1. w'.pc \in {"revokeDefault", "failed"} /\ UNCHANGED cr
    BY <1>0, <1>5 DEF sdkCreate, Call
  <2> QED BY <1>5, <2>1 DEF sdkCreate
<1>6. CASE deleteDefaultSecurityGroupRule
  <2>1. w'.pc \in {"sync", "unsynced", "failed"} /\ UNCHANGED cr
    BY <1>0, <1>6 DEF deleteDefaultSecurityGroupRule, Revoke, Call
  <2>2. sg'.id = sg.id
    BY <1>6 DEF deleteDefaultSecurityGroupRule, Revoke, Call, TypeOK
  <2> QED BY <2>1, <2>2
<1>7. CASE customUpdateSecurityGroup
  BY <1>0, <1>7 DEF customUpdateSecurityGroup
<1>8. CASE deleteSecurityGroupRules
  <2>1. PICK b \in Batches(w.revoke) :
               Revoke(PermsOf(b), [w EXCEPT !.revoke = @ \ b])
    BY <1>8 DEF deleteSecurityGroupRules
  <2>2. w'.pc \in {"sync", "failed"} /\ UNCHANGED cr
    BY <1>0, <1>8, <2>1 DEF deleteSecurityGroupRules, Revoke, Call
  <2>3. sg'.id = sg.id
    BY <2>1 DEF Revoke, Call, TypeOK
  <2> QED BY <2>2, <2>3
<1>9. CASE createSecurityGroupRules
  <2>1. /\ w'.pc \in {"sync", "failed"} /\ UNCHANGED cr
        /\ sg'.id = sg.id
    BY <1>0, <1>9 DEF createSecurityGroupRules, Call, TypeOK
  <2> QED BY <2>1
<1>10. CASE syncSGRules
  BY <1>0, <1>10 DEF syncSGRules
<1>11. CASE DeleteTags
  <2>1. w'.pc \in {"tag", "failed"} /\ sg'.id = sg.id /\ UNCHANGED cr
    BY <1>0, <1>11 DEF DeleteTags, Call, TypeOK
  <2> QED BY <2>1
<1>12. CASE CreateTags
  <2>1. w'.pc \in {"synced", "failed"} /\ sg'.id = sg.id /\ UNCHANGED cr
    BY <1>0, <1>12 DEF CreateTags, Call, TypeOK
  <2> QED BY <2>1
<1>13. CASE sdkDelete
  BY <1>0, <1>13 DEF sdkDelete
<1>14. CASE DeleteSecurityGroup
  BY <1>0, <1>14 DEF DeleteSecurityGroup, Call, NoGroup
<1>15. CASE setResourceUnmanaged
  BY <1>15 DEF setResourceUnmanaged, IdleWorker
<1>16. CASE PatchStatus
  <2>1. w'.pc = "idle" /\ UNCHANGED sg
    BY <1>16 DEF PatchStatus, IdleWorker
  <2>2. cr'.managed = cr.managed /\ cr'.phase = cr.phase
    BY <1>16 DEF PatchStatus, TypeOK
  <2> QED BY <2>1, <2>2
<1> QED BY <1>1, <1>2, <1>3, <1>4, <1>5, <1>6, <1>7, <1>8, <1>9, <1>10, <1>11,
           <1>12, <1>13, <1>14, <1>15, <1>16 DEF Reconcile

LEMMA OwnershipOthers ==
  ASSUME TypeOK, Ownership, Environment \/ ReadFails \/ Crash
  PROVE  Ownership'
<1> USE DEF Ownership, TypeOK, env
<1>1. CASE EditSpec
  BY <1>1 DEF EditSpec
<1>2. CASE DeleteCR
  BY <1>2 DEF DeleteCR
<1>3. CASE RecreateCR
  BY <1>3 DEF RecreateCR
<1>4. CASE Drift
  <2>1. w'.pc = w.pc /\ UNCHANGED cr
    BY <1>4 DEF Drift, Interfere, WorkerType
  <2>2. sg.id # 0
    BY <1>4 DEF Drift
  <2> QED BY <2>1, <2>2
<1>5. CASE Attach \/ Detach \/ RefBecomesReady
  BY <1>5 DEF Attach, Detach, RefBecomesReady
<1>6. CASE ReadFails
  BY <1>6 DEF ReadFails, Failed, WorkerType
<1>7. CASE Crash
  BY <1>7 DEF Crash, IdleWorker
<1> QED BY <1>1, <1>2, <1>3, <1>4, <1>5, <1>6, <1>7 DEF Environment

\* The strengthening is inductive.
LEMMA OwnershipCorrect ==
  ASSUME MissingIsError
  PROVE  Spec => []Ownership
<1>1. Init => Ownership
  BY DEF Init, Ownership, NoGroup, IdleWorker
<1>2. TypeOK /\ Ownership /\ [Next]_vars => Ownership'
  <2> SUFFICES ASSUME TypeOK, Ownership, [Next]_vars PROVE Ownership'
    OBVIOUS
  <2>1. CASE UNCHANGED vars
    BY <2>1 DEF vars, Ownership
  <2>2. CASE Next
    BY <2>2, OwnershipReconcile, OwnershipOthers DEF Next
  <2> QED BY <2>1, <2>2
<1> QED BY <1>1, <1>2, TypeCorrect, PTL DEF Spec

\* NoOrphan for every number of crashes, lost replies, edits and drifts, with
\* EC2 answering InvalidGroup.NotFound for an id it does not know.
THEOREM NoOrphanCorrect ==
  ASSUME MissingIsError
  PROVE  Spec => []NoOrphan
<1>1. Ownership => NoOrphan
  BY DEF Ownership, NoOrphan
<1> QED BY <1>1, OwnershipCorrect, PTL

\* Every step of the controller and of its environment is a step of the
\* abstract life cycle, or leaves finalizer and group as they are.
LEMMA LifecycleStep ==
  ASSUME TypeOK, Ownership, [Next]_vars
  PROVE  [Abs!Next]_(Abs!vars)
<1> USE DEF Objects
<1>1. ASSUME cr'.managed = cr.managed, sg'.id = sg.id PROVE UNCHANGED Abs!vars
  BY <1>1 DEF Abs!vars
<1>2. ASSUME cr'.managed = cr.managed, sg'.id = 0 PROVE Abs!Vanish
  BY <1>2 DEF Abs!Vanish
<1>3. CASE setResourceManaged
  <2>1. sg' = sg /\ (cr' = cr \/ cr' = [cr EXCEPT !.managed = TRUE])
    BY <1>3 DEF setResourceManaged
  <2>2. CASE cr.managed
    BY <1>1, <2>1, <2>2 DEF TypeOK
  <2>3. CASE ~cr.managed
    BY <2>1, <2>3 DEF TypeOK, Abs!Claim, Abs!Next, Abs!vars
  <2> QED BY <2>2, <2>3
<1>4. CASE sdkCreate
  <2>1. cr' = cr /\ (sg' = sg \/ (sg.id = 0 /\ sg'.id = nextId))
    BY <1>4 DEF sdkCreate, Call, Refused
  <2>2. CASE sg' = sg
    BY <1>1, <2>1, <2>2
  <2>3. CASE sg.id = 0 /\ sg'.id = nextId
    <3>1. Objects = {} /\ Objects' = {nextId}
      BY <2>3 DEF TypeOK
    <3>2. cr.managed
      BY <1>4 DEF Ownership, sdkCreate
    <3> QED BY <2>1, <3>1, <3>2 DEF Abs!Create, Abs!Next
  <2> QED BY <2>1, <2>2, <2>3
<1>5. CASE setResourceUnmanaged
  <2>1. sg' = sg /\ cr'.managed = FALSE
    BY <1>5 DEF setResourceUnmanaged, TypeOK
  <2>2. Objects = {} /\ Objects' = Objects
    BY <1>5, <2>1 DEF setResourceUnmanaged, Ownership
  <2> QED BY <2>1, <2>2 DEF Abs!Release, Abs!Next
<1>6. CASE RecreateCR
  <2>1. sg' = sg /\ cr'.managed = FALSE
    BY <1>6 DEF RecreateCR, NewCR
  <2>2. Objects = {} /\ Objects' = Objects
    BY <1>6, <2>1 DEF RecreateCR, Ownership
  <2> QED BY <2>1, <2>2 DEF Abs!Release, Abs!Next
<1>7. CASE deleteDefaultSecurityGroupRule \/ deleteSecurityGroupRules
  <2>1. cr' = cr /\ sg'.id = sg.id
    BY <1>7 DEF deleteDefaultSecurityGroupRule, deleteSecurityGroupRules,
                Revoke, Call, Refused, TypeOK
  <2> QED BY <1>1, <2>1
<1>8. CASE createSecurityGroupRules \/ DeleteTags \/ CreateTags
  <2>1. cr' = cr /\ sg'.id = sg.id
    BY <1>8 DEF createSecurityGroupRules, DeleteTags, CreateTags, Call, Refused,
                Go, TypeOK
  <2> QED BY <1>1, <2>1
<1>9. CASE DeleteSecurityGroup \/ Drift
  <2>1. cr' = cr /\ (sg'.id = sg.id \/ sg'.id = 0)
    BY <1>9 DEF DeleteSecurityGroup, Drift, Call, Refused, NoGroup, TypeOK
  <2> QED BY <1>1, <1>2, <2>1 DEF Abs!Next
<1>10. CASE Begin \/ getSecurityGroupID \/ sdkFind \/ customUpdateSecurityGroup
            \/ syncSGRules \/ sdkDelete
  <2>1. cr' = cr /\ sg' = sg
    BY <1>10 DEF Begin, getSecurityGroupID, sdkFind, customUpdateSecurityGroup,
                 syncSGRules, sdkDelete, Go, Refused
  <2> QED BY <1>1, <2>1
<1>11. CASE PatchStatus \/ EditSpec \/ DeleteCR
  <2>1. sg' = sg /\ cr'.managed = cr.managed
    BY <1>11 DEF PatchStatus, EditSpec, DeleteCR, TypeOK
  <2> QED BY <1>1, <2>1
<1>12. CASE \/ ReadFails \/ Crash \/ Attach \/ Detach \/ RefBecomesReady
            \/ UNCHANGED vars
  <2>1. sg' = sg /\ cr' = cr
    BY <1>12 DEF ReadFails, Crash, Attach, Detach, RefBecomesReady, vars
  <2> QED BY <1>1, <2>1
<1> QED
  BY <1>3, <1>4, <1>5, <1>6, <1>7, <1>8, <1>9, <1>10, <1>11, <1>12
     DEF Next, Reconcile, Environment

\* SecurityGroup implements Lifecycle: the controller makes a group only under
\* its finalizer, never a second one, and takes the finalizer off last.
THEOREM LifecycleCorrect ==
  ASSUME MissingIsError
  PROVE  Spec => ImplementsLifecycle
<1>1. Init => Abs!Init
  BY DEF Init, Abs!Init, Objects, NewCR, NoGroup
<1>2. TypeOK /\ Ownership /\ [Next]_vars => [Abs!Next]_(Abs!vars)
  BY LifecycleStep
<1> QED
  BY <1>1, <1>2, TypeCorrect, OwnershipCorrect, PTL
     DEF Spec, ImplementsLifecycle, Abs!Spec
----------------------------------------------------------------------------
(* An update touches the permissions only if they differ.                  *)

\* What a pass that is about to change the permissions has established.
Gated ==
  /\ At("delete") => w.mode = "delete"
  /\ At("revokeDefault") => w.mode = "create"
  /\ At("sync") /\ w.mode = "update" => w.seenPerms # PermsOf(w.rules)

\* Permissions that are those declared pass the canonical comparison, unless
\* a reference the list makes is unresolved.
LEMMA EqualIsEqual ==
  ASSUME NEW D \in SUBSET RawRule, NEW resolved \in BOOLEAN,
         referencesResolved(D, resolved)
  PROVE  canonicalEqual(D, resolved, PermsOf(D))
<1>1. canonicalPerms(D, resolved) = PermsOf(D)
  <2>1. CASE resolved
    BY <2>1, CanonicalExact
  <2>2. CASE ~resolved
    <3>1. ASSUME NEW p \in PermsOf(D)
          PROVE  p = <<p[1], p[2]>> /\ canonicalGrant(p[2], resolved) = p[2]
      <4>1. PICK r \in D : \E g \in r.grants : p = <<r.key, g>>
        BY PermsOfMember
      <4> QED BY <2>2, <4>1 DEF referencesResolved, canonicalGrant
    <3> QED BY <3>1 DEF canonicalPerms
  <2> QED BY <2>1, <2>2
<1> QED BY <1>1 DEF canonicalEqual

\* The gate is established by the comparison and kept until the pass is over.
LEMMA GatedStep ==
  ASSUME TypeOK, Gated, [Next]_vars
  PROVE  Gated'
<1> USE DEF Gated
<1>t. w \in WorkerType
  BY DEF TypeOK
<1>1. CASE customUpdateSecurityGroup
  <2>1. CASE RulesDiffer /\ referencesResolved(w.rules, w.resolved)
    <3>1. w.seenPerms # PermsOf(w.rules)
      <4>1. w.rules \in SUBSET RawRule /\ w.resolved \in BOOLEAN
        BY <1>t DEF WorkerType
      <4> QED BY <2>1, <4>1, EqualIsEqual DEF RulesDiffer
    <3>2. w'.seenPerms = w.seenPerms /\ w'.rules = w.rules /\ w'.pc = "sync"
      BY <1>1, <2>1, <1>t DEF customUpdateSecurityGroup, Go, WorkerType
    <3> QED BY <3>1, <3>2
  <2>2. CASE ~(RulesDiffer /\ referencesResolved(w.rules, w.resolved))
    <3>1. w'.pc \in {"unsynced", "untag", "synced"}
      BY <1>1, <2>2, <1>t DEF customUpdateSecurityGroup, Go, WorkerType
    <3> QED BY <3>1
  <2> QED BY <2>1, <2>2
<1>2. CASE sdkDelete
  <2>1. w'.mode = "delete" /\ w'.pc = "sync"
    BY <1>2, <1>t DEF sdkDelete, Go, WorkerType
  <2> QED BY <2>1
<1>3. CASE sdkCreate
  <2>1. w'.pc = "failed" \/ (w'.pc = "revokeDefault" /\ w'.mode = "create")
    BY <1>3, <1>t DEF sdkCreate, Call, Refused, Failed, WorkerType
  <2> QED BY <2>1
<1>4. CASE deleteDefaultSecurityGroupRule
  <2>1. w'.pc \in {"failed", "unsynced"} \/ (w'.pc = "sync" /\ w'.mode = "create")
    BY <1>4, <1>t DEF deleteDefaultSecurityGroupRule, Revoke, Call, Refused, Failed,
                      WorkerType
  <2> QED BY <2>1
<1>5. CASE deleteSecurityGroupRules \/ createSecurityGroupRules
  <2>1. \/ w'.pc = "failed"
        \/ /\ w.pc = "sync" /\ w'.pc = "sync" /\ w'.mode = w.mode
           /\ w'.seenPerms = w.seenPerms /\ w'.rules = w.rules
    BY <1>5, <1>t DEF deleteSecurityGroupRules, createSecurityGroupRules, Revoke,
                      Call, Refused, Failed, WorkerType
  <2> QED BY <2>1
<1>6. CASE syncSGRules
  <2>1. w'.pc \in {"synced", "untag"} \/ (w'.pc = "delete" /\ w'.mode = "delete")
    BY <1>6, <1>t DEF syncSGRules, Go, WorkerType
  <2> QED BY <2>1
<1>7. CASE Drift
  <2>1. /\ w'.pc = w.pc /\ w'.mode = w.mode
        /\ w'.seenPerms = w.seenPerms /\ w'.rules = w.rules
    BY <1>7, <1>t DEF Drift, Interfere, WorkerType
  <2> QED BY <2>1
<1>8. CASE \/ Begin \/ getSecurityGroupID \/ sdkFind \/ setResourceManaged
           \/ DeleteTags \/ CreateTags \/ DeleteSecurityGroup
           \/ setResourceUnmanaged \/ PatchStatus \/ ReadFails \/ Crash
  <2>1. w'.pc \notin {"delete", "revokeDefault", "sync"}
    <3>0. CASE Begin
      <4>1. w'.pc = IF cr.id = 0 THEN "lookup" ELSE "describe"
        BY <3>0 DEF Begin, Go, IdleWorker
      <4> QED BY <4>1
    <3>1. CASE getSecurityGroupID
      BY <3>1, <1>t DEF getSecurityGroupID, Go, NotFound, WorkerType
    <3>4. CASE sdkFind
      <4>1. w' \in {NotFound, Failed,
                    [w EXCEPT !.pc = "found", !.seenPerms = sg.perms, !.seenTags = sg.tags]}
        BY <3>4 DEF sdkFind, Go, Refused
      <4>2. NotFound.pc \in {"release", "manage"} /\ Failed.pc = "failed"
        BY <1>t DEF NotFound, Failed, WorkerType
      <4>3. [w EXCEPT !.pc = "found", !.seenPerms = sg.perms, !.seenTags = sg.tags].pc = "found"
        BY <1>t DEF WorkerType
      <4> QED BY <4>1, <4>2, <4>3
    <3>5. CASE setResourceManaged
      BY <3>5, <1>t DEF setResourceManaged, IdleWorker, WorkerType
    <3>2. CASE DeleteTags \/ CreateTags \/ DeleteSecurityGroup
      BY <3>2, <1>t DEF DeleteTags, CreateTags, DeleteSecurityGroup, Go, Call,
                        Refused, Failed, WorkerType
    <3>3. CASE setResourceUnmanaged \/ PatchStatus \/ ReadFails \/ Crash
      BY <3>3, <1>t DEF setResourceUnmanaged, PatchStatus, ReadFails, Crash, Failed,
                        IdleWorker, WorkerType
    <3> QED BY <1>8, <3>0, <3>1, <3>2, <3>3, <3>4, <3>5
  <2> QED BY <2>1
<1>9. CASE \/ EditSpec \/ DeleteCR \/ RecreateCR \/ Attach \/ Detach
           \/ RefBecomesReady \/ UNCHANGED vars
  <2>1. w' = w
    BY <1>9 DEF EditSpec, DeleteCR, RecreateCR, Attach, Detach, RefBecomesReady, vars
  <2> QED BY <2>1
<1> QED
  BY <1>1, <1>2, <1>3, <1>4, <1>5, <1>6, <1>7, <1>8, <1>9
     DEF Next, Reconcile, Environment

\* Only the steps of syncSGRules and of a creation or deletion change the
\* permissions of an existing group; a gated update does so only for a reason.
LEMMA GatedChange ==
  ASSUME TypeOK, Gated, Next, sg.id # 0, sg'.perms # sg.perms, drifts' = drifts,
         w.mode = "update"
  PROVE  w.seenPerms # PermsOf(w.rules)
<1>1. CASE deleteSecurityGroupRules \/ createSecurityGroupRules
  BY <1>1 DEF Gated, deleteSecurityGroupRules, createSecurityGroupRules
<1>2. CASE deleteDefaultSecurityGroupRule \/ DeleteSecurityGroup
  BY <1>2 DEF Gated, deleteDefaultSecurityGroupRule, DeleteSecurityGroup
<1>3. CASE sdkCreate
  BY <1>3 DEF sdkCreate, Refused
<1>4. CASE DeleteTags \/ CreateTags
  <2>1. sg'.perms = sg.perms
    BY <1>4 DEF DeleteTags, CreateTags, Call, Refused, Go, TypeOK
  <2> QED BY <2>1
<1>5. CASE Drift
  BY <1>5 DEF Drift, TypeOK
<1>6. CASE \/ Begin \/ getSecurityGroupID \/ sdkFind \/ setResourceManaged
           \/ customUpdateSecurityGroup \/ syncSGRules \/ sdkDelete
           \/ setResourceUnmanaged \/ PatchStatus
  <2>1. sg' = sg
    BY <1>6 DEF Begin, getSecurityGroupID, sdkFind, setResourceManaged,
                customUpdateSecurityGroup, syncSGRules, sdkDelete,
                setResourceUnmanaged, PatchStatus, Go, Refused
  <2> QED BY <2>1
<1>7. CASE \/ ReadFails \/ Crash \/ EditSpec \/ DeleteCR \/ RecreateCR
           \/ Attach \/ Detach \/ RefBecomesReady
  <2>1. sg' = sg
    BY <1>7 DEF ReadFails, Crash, EditSpec, DeleteCR, RecreateCR, Attach, Detach,
                RefBecomesReady
  <2> QED BY <2>1
<1> QED
  BY <1>1, <1>2, <1>3, <1>4, <1>5, <1>6, <1>7 DEF Next, Reconcile, Environment

\* Server-side normalisation never makes the controller touch the rules: an
\* update changes the permissions of the group only if those it read are not
\* those declared (customPostCompare gates syncSGRules).
THEOREM NoSpuriousChangeCorrect == Spec => NoSpuriousChange
<1>1. Init => Gated
  BY DEF Init, Gated, IdleWorker
<1>2. TypeOK /\ Gated /\ [Next]_vars => Gated'
  BY GatedStep
<1>3. TypeOK /\ Gated /\ [Next]_vars =>
        [sg.id # 0 /\ sg'.perms # sg.perms /\ drifts' = drifts /\ w.mode = "update"
           => w.seenPerms # PermsOf(w.rules)]_vars
  BY GatedChange
<1> QED BY <1>1, <1>2, <1>3, TypeCorrect, PTL DEF Spec, NoSpuriousChange
----------------------------------------------------------------------------
(* A pass that ends in "synced" is exact.                                  *)

\* A pass that has failed, or is over, claims nothing.
LEMMA NoClaim ==
  ASSUME w'.pc \in {"idle", "delete", "release", "unsynced", "failed"},
         w'.pc = "idle" \/ w'.rules \in SpecRules
  PROVE  Inner'
BY DEF Inner, WorkerShape, Progress, SyncedIsExact

LEMMA FailedClaimsNothing ==
  ASSUME TypeOK, Inner, w.pc # "idle", w' = Failed
  PROVE  Inner'
<1>1. w'.pc = "failed" /\ w'.rules = w.rules
  BY DEF Failed, TypeOK, WorkerType
<1> QED BY <1>1, NoClaim DEF Inner, WorkerShape

LEMMA WellFormedPart ==
  ASSUME NEW R, WellFormed(R), NEW S \in SUBSET R
  PROVE  WellFormed(S)
BY DEF WellFormed

LEMMA ReadKeepsInner ==
  ASSUME TypeOK, Inner,
         Begin \/ getSecurityGroupID \/ sdkFind \/ setResourceManaged
  PROVE  Inner'
<1>0. w \in WorkerType
  BY DEF TypeOK
<1> USE DEF Go, WorkerType
<1>1. CASE Begin
  <2>1. cr.rules \in SpecRules
    BY DEF TypeOK
  <2>2. /\ w'.pc \in {"lookup", "describe"} /\ w'.rules \in SpecRules
        /\ w'.pc = "describe" => w'.id # 0
        /\ w'.mode # "create" /\ w'.revoke = {} /\ w'.authorize = {}
    BY <1>1, <2>1 DEF Begin, IdleWorker
  <2> QED BY <2>2 DEF Inner, WorkerShape, Progress, SyncedIsExact
<1>2. CASE getSecurityGroupID
  <2>1. /\ w'.pc \in {"release", "manage", "describe"} /\ w'.rules = w.rules
        /\ w'.pc = "describe" => w'.id # 0
        /\ w'.mode = w.mode /\ w'.revoke = w.revoke /\ w'.authorize = w.authorize
    BY <1>0, <1>2 DEF getSecurityGroupID, NotFound
  <2>2. /\ w.rules \in SpecRules
        /\ w.mode # "create" /\ w.revoke = {} /\ w.authorize = {}
    BY <1>2 DEF getSecurityGroupID, Inner, WorkerShape
  <2> QED BY <2>1, <2>2 DEF Inner, WorkerShape, Progress, SyncedIsExact
<1>3. CASE sdkFind
  <2>1. /\ w.rules \in SpecRules /\ w.id # 0
        /\ w.mode # "create" /\ w.revoke = {} /\ w.authorize = {}
    BY <1>3 DEF sdkFind, Inner, WorkerShape
  <2>2. CASE sg.id = w.id
    <3>1. /\ w'.pc = "found" /\ w'.rules = w.rules /\ w'.id = w.id
          /\ w'.mode = w.mode /\ UNCHANGED sg
          /\ w'.revoke = w.revoke /\ w'.authorize = w.authorize
          /\ w'.seenPerms = sg.perms /\ w'.seenTags = sg.tags
      BY <1>0, <1>3, <2>2 DEF sdkFind
    <3> QED BY <2>1, <2>2, <3>1 DEF Inner, WorkerShape, Progress, SyncedIsExact
  <2>3. CASE sg.id # w.id
    <3>1. /\ w'.pc \in {"failed", "release", "manage"} /\ w'.rules = w.rules
          /\ w'.revoke = w.revoke /\ w'.authorize = w.authorize
      BY <1>0, <1>3, <2>3 DEF sdkFind, Refused, Failed, NotFound
    <3> QED BY <2>1, <3>1 DEF Inner, WorkerShape, Progress, SyncedIsExact
  <2> QED BY <2>2, <2>3
<1>4. CASE setResourceManaged
  <2>1. w.rules \in SpecRules /\ w.revoke = {} /\ w.authorize = {}
    BY <1>4 DEF setResourceManaged, Inner, WorkerShape
  <2>2. \/ w'.pc = "idle"
        \/ /\ w'.pc = "create" /\ w'.rules = w.rules
           /\ w'.revoke = w.revoke /\ w'.authorize = w.authorize
    BY <1>0, <1>4 DEF setResourceManaged, IdleWorker
  <2> QED BY <2>1, <2>2 DEF Inner, WorkerShape, Progress, SyncedIsExact
<1> QED BY <1>1, <1>2, <1>3, <1>4
LEMMA CreateKeepsInner ==
  ASSUME TypeOK, Inner, sdkCreate \/ deleteDefaultSecurityGroupRule
  PROVE  Inner'
<1>0. w \in WorkerType
  BY DEF TypeOK
<1>1. CASE w' = Failed
  <2>1. w.pc # "idle"
    BY DEF sdkCreate, deleteDefaultSecurityGroupRule
  <2> QED BY <1>1, <2>1, FailedClaimsNothing
<1>2. CASE sdkCreate /\ w' # Failed
  <2>1. w.rules \in SpecRules /\ w.revoke = {} /\ w.authorize = {}
    BY <1>2 DEF sdkCreate, Inner, WorkerShape
  <2>2. /\ sg' = [id |-> nextId, perms |-> {DefaultPerm}, tags |-> w.tags]
        /\ w' = [w EXCEPT !.pc = "revokeDefault", !.mode = "create", !.id = nextId]
    BY <1>2 DEF sdkCreate, Call, Refused
  <2>3. /\ w'.pc = "revokeDefault" /\ w'.mode = "create" /\ w'.id = nextId
        /\ w'.rules = w.rules /\ w'.tags = w.tags
        /\ w'.revoke = {} /\ w'.authorize = {}
    BY <1>0, <2>1, <2>2 DEF WorkerType
  <2>4. sg'.id = nextId /\ sg'.perms = {DefaultPerm} /\ sg'.tags = w.tags
    BY <2>2
  <2> QED BY <2>1, <2>3, <2>4 DEF Inner, WorkerShape, Progress, SyncedIsExact
<1>3. CASE deleteDefaultSecurityGroupRule /\ w' # Failed
  <2>1. /\ w.rules \in SpecRules /\ w.mode = "create" /\ w.revoke = {}
        /\ WellFormed(w.rules)
    BY <1>3 DEF deleteDefaultSecurityGroupRule, Inner, WorkerShape
  <2>2. ~w.interfered => sg.id = w.id /\ sg.tags = w.tags /\ sg.perms = {DefaultPerm}
    BY <1>3 DEF deleteDefaultSecurityGroupRule, Inner, Progress
  <2>3. CASE referencesResolved(w.rules, w.resolved)
    <3>1. /\ sg' = [sg EXCEPT !.perms = @ \ {DefaultPerm}]
          /\ w' = [w EXCEPT !.pc = "sync", !.authorize = w.rules]
      BY <1>3, <2>3 DEF deleteDefaultSecurityGroupRule, Revoke, Call, Refused
    <3>2. /\ w'.pc = "sync" /\ w'.authorize = w.rules /\ w'.revoke = {}
          /\ w'.mode = "create" /\ w'.rules = w.rules /\ w'.tags = w.tags
          /\ w'.id = w.id /\ w'.interfered = w.interfered
      BY <1>0, <2>1, <3>1 DEF WorkerType
    <3>3. ~w.interfered => sg'.id = w.id /\ sg'.tags = w.tags /\ sg'.perms = {}
      BY <2>2, <3>1 DEF TypeOK
    <3>4. PermsOf({}) = {}
      BY DEF PermsOf
    <3> HIDE DEF At
    <3>5. WorkerShape'
      BY <2>1, <3>2 DEF WorkerShape, At
    <3>6. Progress'
      BY <3>2, <3>3, <3>4 DEF Progress, Remaining, At
    <3> QED BY <3>2, <3>5, <3>6 DEF Inner, SyncedIsExact, At
  <2>4. CASE ~referencesResolved(w.rules, w.resolved)
    <3>1. w' = [w EXCEPT !.pc = "unsynced"]
      BY <1>3, <2>4 DEF deleteDefaultSecurityGroupRule, Revoke, Call, Refused
    <3>2. w'.pc = "unsynced" /\ w'.rules = w.rules
      BY <1>0, <3>1 DEF WorkerType
    <3> QED BY <2>1, <3>2, NoClaim
  <2> QED BY <2>3, <2>4
<1> QED BY <1>1, <1>2, <1>3

\* The delta gate.  Either the plan of syncSGRules makes up the difference, or
\* there is none; what the tags need is left to DeleteTags and CreateTags.
LEMMA CompareKeepsInner ==
  ASSUME TypeOK, Inner, customUpdateSecurityGroup
  PROVE  Inner'
<1> DEFINE L == addRulesToSpec(w.seenPerms)
<1>0. w \in WorkerType
  BY DEF TypeOK
<1>1. /\ w.rules \in SpecRules /\ w.rules \in SUBSET RawRule /\ WellFormed(w.rules)
      /\ w.mode = "update" /\ w.id # 0 /\ w.revoke = {} /\ w.authorize = {}
      /\ w.seenPerms \in SUBSET Perm
  BY <1>0 DEF customUpdateSecurityGroup, Inner, WorkerShape, WorkerType
<1>2. ~w.interfered => sg.id = w.id /\ sg.perms = w.seenPerms /\ sg.tags = w.seenTags
  BY DEF customUpdateSecurityGroup, Inner, Progress
<1>3. UNCHANGED sg
  BY DEF customUpdateSecurityGroup, Go
<1>4. CASE RulesDiffer /\ ~referencesResolved(w.rules, w.resolved)
  <2>1. w' = [w EXCEPT !.pc = "unsynced"]
    BY <1>4 DEF customUpdateSecurityGroup, Go
  <2>2. w'.pc = "unsynced" /\ w'.rules = w.rules
    BY <1>0, <2>1 DEF WorkerType
  <2> QED BY <1>1, <2>2, NoClaim
<1>5. CASE RulesDiffer /\ referencesResolved(w.rules, w.resolved)
  <2>1. w' = [w EXCEPT !.pc = "sync", !.revoke = toDelete(w.rules, L),
                       !.authorize = toAdd(w.rules, L)]
    BY <1>5 DEF customUpdateSecurityGroup, Go
  <2>2. /\ w'.pc = "sync" /\ w'.revoke = toDelete(w.rules, L)
        /\ w'.authorize = toAdd(w.rules, L) /\ w'.mode = "update"
        /\ w'.rules = w.rules /\ w'.id = w.id /\ w'.interfered = w.interfered
        /\ w'.seenTags = w.seenTags
    BY <1>0, <1>1, <2>1 DEF WorkerType
  <2>3. WellFormed(toAdd(w.rules, L))
    BY <1>1, WellFormedPart DEF toAdd
  <2>4. WorkerShape'
    BY <1>1, <2>2, <2>3 DEF WorkerShape
  <2>5. /\ (w.seenPerms \ PermsOf(w'.revoke)) \cup PermsOf(w'.authorize) = PermsOf(w.rules)
        /\ (w.seenPerms \ PermsOf(w'.revoke)) \cap PermsOf(w'.authorize) = {}
    BY <1>1, <2>2, PlanExact
  <2>6. Progress'
    BY <1>2, <1>3, <2>2, <2>5 DEF Progress, Remaining
  <2> QED BY <2>2, <2>4, <2>6 DEF Inner, SyncedIsExact
<1>6. CASE ~RulesDiffer
  <2>1. w' = [w EXCEPT !.pc = IF TagsDiffer THEN "untag" ELSE "synced"]
    BY <1>6 DEF customUpdateSecurityGroup, Go
  <2>2. /\ w'.pc = IF TagsDiffer THEN "untag" ELSE "synced"
        /\ w'.mode = "update" /\ w'.rules = w.rules /\ w'.tags = w.tags
        /\ w'.id = w.id /\ w'.interfered = w.interfered
        /\ w'.resolved = w.resolved /\ w'.owner = w.owner
        /\ w'.seenTags = w.seenTags
    BY <1>0, <1>1, <2>1 DEF WorkerType
  <2>3. w.resolved /\ w.owner => PermsOf(w.rules) = w.seenPerms
    BY <1>1, <1>6, CanonicalExact DEF RulesDiffer, canonicalEqual
  <2>4. WorkerShape'
    BY <1>1, <2>2 DEF WorkerShape
  <2>5. Progress'
    BY <1>2, <1>3, <2>2, <2>3 DEF Progress
  <2>6. SyncedIsExact'
    BY <1>2, <1>3, <2>2, <2>3 DEF SyncedIsExact, ExactFor, TagsDiffer
  <2> QED BY <2>4, <2>5, <2>6 DEF Inner
<1> QED BY <1>4, <1>5, <1>6

LEMMA RevokeKeepsInner ==
  ASSUME TypeOK, Inner, deleteSecurityGroupRules
  PROVE  Inner'
<1>0. w \in WorkerType /\ w.pc = "sync"
  BY DEF TypeOK, deleteSecurityGroupRules
<1>1. CASE w' = Failed
  BY <1>0, <1>1, FailedClaimsNothing
<1>2. CASE w' # Failed
  <2>1. PICK b \in Batches(w.revoke) :
               Revoke(PermsOf(b), [w EXCEPT !.revoke = @ \ b])
    BY DEF deleteSecurityGroupRules
  <2>2. /\ sg' = [sg EXCEPT !.perms = @ \ PermsOf(b)]
        /\ w' = [w EXCEPT !.revoke = @ \ b]
    BY <1>2, <2>1 DEF Revoke, Call, Refused
  <2>3. /\ w'.pc = "sync" /\ w'.revoke = w.revoke \ b
        /\ w'.authorize = w.authorize /\ w'.mode = w.mode
        /\ w'.rules = w.rules /\ w'.tags = w.tags /\ w'.seenTags = w.seenTags
        /\ w'.id = w.id /\ w'.interfered = w.interfered
    BY <1>0, <2>2 DEF WorkerType
  <2>4. sg'.id = sg.id /\ sg'.tags = sg.tags /\ sg'.perms = sg.perms \ PermsOf(b)
    BY <2>2 DEF TypeOK
  <2>5. PermsOf(w.revoke) = PermsOf(w'.revoke) \cup PermsOf(b)
    <3>1. w.revoke = w'.revoke \cup b
      BY <2>3, BatchSubset
    <3> QED BY <3>1, PermsOfUnion
  <2>6. Remaining' = Remaining
    BY <2>4, <2>5 DEF Remaining
  <2>7. WorkerShape'
    BY <1>0, <2>3 DEF Inner, WorkerShape
  <2>8. Progress'
    BY <1>0, <2>3, <2>4, <2>6 DEF Inner, Progress
  <2> QED BY <2>3, <2>7, <2>8 DEF Inner, SyncedIsExact
<1> QED BY <1>1, <1>2

LEMMA AuthorizeKeepsInner ==
  ASSUME TypeOK, Inner, createSecurityGroupRules
  PROVE  Inner'
<1>0. w \in WorkerType /\ w.pc = "sync" /\ w.revoke = {}
  BY DEF TypeOK, createSecurityGroupRules
<1>1. CASE w' = Failed
  BY <1>0, <1>1, FailedClaimsNothing
<1>2. CASE w' # Failed
  <2>1. PICK b \in Batches(w.authorize) :
               /\ sg' = [sg EXCEPT !.perms = @ \cup PermsOf(b)]
               /\ w' = [w EXCEPT !.authorize = @ \ b]
    BY <1>2 DEF createSecurityGroupRules, Call, Refused
  <2>2. /\ w'.pc = "sync" /\ w'.revoke = {}
        /\ w'.authorize = w.authorize \ b /\ w'.mode = w.mode
        /\ w'.rules = w.rules /\ w'.tags = w.tags /\ w'.seenTags = w.seenTags
        /\ w'.id = w.id /\ w'.interfered = w.interfered
    BY <1>0, <2>1 DEF WorkerType
  <2>3. sg'.id = sg.id /\ sg'.tags = sg.tags /\ sg'.perms = sg.perms \cup PermsOf(b)
    BY <2>1 DEF TypeOK
  <2>4. b \in SUBSET w.authorize
    BY BatchSubset
  <2>5. PermsOf(w.authorize) = PermsOf(w'.authorize) \cup PermsOf(b)
    <3>1. w.authorize = w'.authorize \cup b
      BY <2>2, <2>4
    <3> QED BY <3>1, PermsOfUnion
  <2>6. WellFormed(w.authorize) /\ WellFormed(w'.authorize)
    BY <1>0, <2>2, WellFormedPart DEF Inner, WorkerShape
  <2>7. PermsOf(w'.authorize) \cap PermsOf(b) = {}
    BY <2>2, <2>4, <2>6, WellFormedDisjoint
  <2>8. PermsOf({}) = {}
    BY DEF PermsOf
  <2>9. Remaining = sg.perms /\ Remaining' = sg'.perms
    BY <1>0, <2>2, <2>8 DEF Remaining
  <2>10. WorkerShape'
    BY <1>0, <2>2, <2>6 DEF Inner, WorkerShape
  <2>11. Progress'
    BY <1>0, <2>2, <2>3, <2>5, <2>7, <2>9 DEF Inner, Progress
  <2> QED BY <2>2, <2>10, <2>11 DEF Inner, SyncedIsExact
<1> QED BY <1>1, <1>2

LEMMA SyncDoneKeepsInner ==
  ASSUME TypeOK, Inner, syncSGRules
  PROVE  Inner'
<1>0. w \in WorkerType /\ w.pc = "sync" /\ w.revoke = {} /\ w.authorize = {}
  BY DEF TypeOK, syncSGRules
<1>1. /\ w'.pc = CASE w.mode = "delete" -> "delete"
                   [] w.mode = "create" -> "synced"
                   [] OTHER -> IF TagsDiffer THEN "untag" ELSE "synced"
      /\ w'.mode = w.mode /\ w'.rules = w.rules /\ w'.tags = w.tags
      /\ w'.id = w.id /\ w'.interfered = w.interfered /\ w'.seenTags = w.seenTags
      /\ UNCHANGED sg
  BY <1>0 DEF syncSGRules, Go, WorkerType
<1>2. w.rules \in SpecRules /\ w.mode \in {"update", "create", "delete"}
  BY <1>0 DEF Inner, WorkerShape, WorkerType, Modes
<1>3. CASE w.mode = "delete"
  BY <1>1, <1>2, <1>3, NoClaim
<1>4. CASE w.mode # "delete"
  <2>1. PermsOf({}) = {}
    BY DEF PermsOf
  <2>2. ~w.interfered =>
          /\ sg.id = w.id /\ sg.perms = PermsOf(w.rules)
          /\ sg.tags = IF w.mode = "create" THEN w.tags ELSE w.seenTags
    BY <1>0, <1>4, <2>1 DEF Inner, Progress, Remaining
  <2>3. w'.pc \in {"synced", "untag"} /\ (w'.pc = "untag" => w.mode = "update")
    BY <1>1, <1>2, <1>4
  <2>4. w'.pc = "synced" => w.mode = "create" \/ w.tags = w.seenTags
    BY <1>1, <1>2, <1>4 DEF TagsDiffer
  <2>5. WorkerShape'
    BY <1>1, <1>2, <2>3 DEF WorkerShape
  <2>6. Progress'
    BY <1>1, <2>2, <2>3 DEF Progress
  <2>7. SyncedIsExact'
    BY <1>1, <2>2, <2>4 DEF SyncedIsExact, ExactFor
  <2> QED BY <2>5, <2>6, <2>7 DEF Inner
<1> QED BY <1>3, <1>4
LEMMA TagsKeepInner ==
  ASSUME TypeOK, Inner, DeleteTags \/ CreateTags
  PROVE  Inner'
<1>0. w \in WorkerType /\ w.pc \in {"untag", "tag"}
  BY DEF TypeOK, DeleteTags, CreateTags
<1>1. CASE w' = Failed
  BY <1>0, <1>1, FailedClaimsNothing
<1>2. w.rules \in SpecRules /\ w.mode = "update"
  BY <1>0 DEF Inner, WorkerShape
<1>3. CASE DeleteTags /\ w' # Failed
  <2>1. w' = [w EXCEPT !.pc = "tag"]
    BY <1>3 DEF DeleteTags, Go, Call, Refused
  <2>2. /\ w'.pc = "tag" /\ w'.mode = w.mode /\ w'.rules = w.rules
        /\ w'.tags = w.tags /\ w'.seenTags = w.seenTags /\ w'.id = w.id
        /\ w'.interfered = w.interfered /\ w'.resolved = w.resolved /\ w'.owner = w.owner
    BY <1>0, <2>1 DEF WorkerType
  <2>3. \/ w.seenTags \subseteq w.tags /\ UNCHANGED sg
        \/ sg' = [sg EXCEPT !.tags = @ \ (w.seenTags \ w.tags)]
    BY <1>3 DEF DeleteTags, Go, Call, Refused
  <2>4. sg'.id = sg.id /\ sg'.perms = sg.perms
    BY <2>3 DEF TypeOK
  <2>5. ~w.interfered => sg.tags = w.seenTags
    BY <1>3 DEF DeleteTags, Inner, Progress
  <2>6. ~w.interfered => sg'.tags = w.seenTags \cap w.tags
    BY <2>3, <2>5 DEF TypeOK
  <2>7. WorkerShape'
    BY <1>2, <2>2 DEF WorkerShape
  <2>8. Progress'
    BY <1>3, <2>2, <2>4, <2>6 DEF DeleteTags, Inner, Progress
  <2> QED BY <2>2, <2>7, <2>8 DEF Inner, SyncedIsExact
<1>4. CASE CreateTags /\ w' # Failed
  <2>1. w' = [w EXCEPT !.pc = "synced"]
    BY <1>4 DEF CreateTags, Go, Call, Refused
  <2>2. /\ w'.pc = "synced" /\ w'.mode = w.mode /\ w'.rules = w.rules
        /\ w'.tags = w.tags /\ w'.id = w.id
        /\ w'.interfered = w.interfered /\ w'.resolved = w.resolved /\ w'.owner = w.owner
    BY <1>0, <2>1 DEF WorkerType
  <2>3. \/ w.tags \subseteq w.seenTags /\ UNCHANGED sg
        \/ sg' = [sg EXCEPT !.tags = @ \cup (w.tags \ w.seenTags)]
    BY <1>4 DEF CreateTags, Go, Call, Refused
  <2>4. sg'.id = sg.id /\ sg'.perms = sg.perms
    BY <2>3 DEF TypeOK
  <2>5. ~w.interfered => sg.tags = w.seenTags \cap w.tags
    BY <1>4 DEF CreateTags, Inner, Progress
  <2>6. ~w.interfered => sg'.tags = w.tags
    <3>1. CASE w.tags \subseteq w.seenTags /\ UNCHANGED sg
      BY <2>5, <3>1
    <3>2. CASE sg' = [sg EXCEPT !.tags = @ \cup (w.tags \ w.seenTags)]
      <4>1. sg'.tags = sg.tags \cup (w.tags \ w.seenTags)
        BY <3>2 DEF TypeOK
      <4> QED BY <2>5, <4>1
    <3> QED BY <2>3, <3>1, <3>2
  <2>7. WorkerShape'
    BY <1>2, <2>2 DEF WorkerShape
  <2>8. Progress'
    BY <2>2 DEF Progress
  <2>9. SyncedIsExact'
    BY <1>2, <1>4, <2>2, <2>4, <2>6 DEF CreateTags, Inner, Progress, SyncedIsExact, ExactFor
  <2> QED BY <2>7, <2>8, <2>9 DEF Inner
<1> QED BY <1>1, <1>3, <1>4

LEMMA DeleteKeepsInner ==
  ASSUME TypeOK, Inner,
         sdkDelete \/ DeleteSecurityGroup \/ setResourceUnmanaged \/ PatchStatus
  PROVE  Inner'
<1>0. w \in WorkerType
  BY DEF TypeOK
<1>1. CASE sdkDelete
  <2>1. w.rules \in SpecRules /\ w.authorize = {} /\ w.mode = "delete"
    BY <1>1 DEF sdkDelete, Inner, WorkerShape
  <2>2. w'.pc = "sync" /\ w'.rules = w.rules /\ w'.authorize = {} /\ w'.mode = "delete"
    BY <1>0, <1>1, <2>1 DEF sdkDelete, Go, WorkerType
  <2> QED BY <2>1, <2>2 DEF Inner, WorkerShape, Progress, SyncedIsExact, WellFormed
<1>2. CASE DeleteSecurityGroup
  <2>1. w'.pc \in {"release", "failed"} /\ w'.rules = w.rules
    BY <1>0, <1>2 DEF DeleteSecurityGroup, Call, Refused, Failed, WorkerType
  <2>2. w.rules \in SpecRules
    BY <1>2 DEF DeleteSecurityGroup, Inner, WorkerShape
  <2> QED BY <2>1, <2>2, NoClaim
<1>3. CASE setResourceUnmanaged \/ PatchStatus
  <2>1. w'.pc = "idle"
    BY <1>3 DEF setResourceUnmanaged, PatchStatus, IdleWorker
  <2> QED BY <2>1, NoClaim
<1> QED BY <1>1, <1>2, <1>3

LEMMA OthersKeepInner ==
  ASSUME TypeOK, Inner, ReadFails \/ Crash \/ Environment
  PROVE  Inner'
<1>0. w \in WorkerType
  BY DEF TypeOK
<1>1. CASE ReadFails
  <2>1. w' = Failed /\ w.pc # "idle"
    BY <1>1 DEF ReadFails
  <2> QED BY <2>1, FailedClaimsNothing
<1>2. CASE Crash
  <2>1. w'.pc = "idle"
    BY <1>2 DEF Crash, IdleWorker
  <2> QED BY <2>1, NoClaim
<1>3. CASE Drift
  <2>1. CASE w.pc = "idle"
    BY <1>3, <2>1, NoClaim DEF Drift, Interfere
  <2>2. CASE w.pc # "idle"
    <3>1. w' = [w EXCEPT !.interfered = TRUE]
      BY <1>3, <2>2 DEF Drift, Interfere
    <3>2. /\ w'.pc = w.pc /\ w'.mode = w.mode /\ w'.rules = w.rules /\ w'.id = w.id
          /\ w'.revoke = w.revoke /\ w'.authorize = w.authorize /\ w'.interfered
      BY <1>0, <3>1 DEF WorkerType
    <3> QED BY <3>2 DEF Inner, WorkerShape, Progress, SyncedIsExact
  <2> QED BY <2>1, <2>2
<1>4. CASE EditSpec \/ DeleteCR \/ RecreateCR \/ Attach \/ Detach \/ RefBecomesReady
  <2>1. UNCHANGED <<sg, w>>
    BY <1>4 DEF EditSpec, DeleteCR, RecreateCR, Attach, Detach, RefBecomesReady
  <2> QED BY <2>1 DEF Inner, WorkerShape, Progress, Remaining, SyncedIsExact, ExactFor
<1> QED BY <1>1, <1>2, <1>3, <1>4 DEF Environment

LEMMA InnerCorrect == Spec => []Inner
<1>1. Init => Inner
  <2>1. Init => w.pc = "idle"
    BY DEF Init, IdleWorker
  <2> QED BY <2>1 DEF Inner, WorkerShape, Progress, SyncedIsExact
<1>2. TypeOK /\ Inner /\ [Next]_vars => Inner'
  <2> SUFFICES ASSUME TypeOK, Inner, [Next]_vars PROVE Inner'
    OBVIOUS
  <2>1. CASE UNCHANGED vars
    BY <2>1 DEF vars, Inner, WorkerShape, Progress, Remaining, SyncedIsExact, ExactFor
  <2>2. CASE Next
    BY <2>2, ReadKeepsInner, CreateKeepsInner, CompareKeepsInner, RevokeKeepsInner,
       AuthorizeKeepsInner, SyncDoneKeepsInner, TagsKeepInner, DeleteKeepsInner,
       OthersKeepInner DEF Next, Reconcile
  <2> QED BY <2>1, <2>2
<1> QED BY <1>1, <1>2, TypeCorrect, PTL DEF Spec

\* A pass that reports success has left exactly the declared permissions and tags
\* (syncSGRules and tags.Sync), for every batch size, every set of rule lists in
\* every spelling, and every number of faults, edits and drifts.
THEOREM ExactCorrect == Spec => []SyncedIsExact
<1>1. Inner => SyncedIsExact
  BY DEF Inner
<1> QED BY <1>1, InnerCorrect, PTL

\* When syncSGRules has sent its revocations, none of the permissions it is still to
\* authorize is there already: EC2 refuses no batch as a duplicate.
THEOREM NeverDuplicateCorrect == Spec => []NeverDuplicate
<1>1. Inner => NeverDuplicate
  <2> SUFFICES ASSUME Inner, At("sync"), w.revoke = {}, ~w.interfered
               PROVE  PermsOf(w.authorize) \cap sg.perms = {}
    BY DEF NeverDuplicate
  <2>1. PermsOf({}) = {}
    BY DEF PermsOf
  <2>2. CASE w.mode = "delete"
    BY <2>1, <2>2 DEF Inner, WorkerShape
  <2>3. CASE w.mode # "delete"
    BY <2>1, <2>3 DEF Inner, Progress, Remaining
  <2> QED BY <2>2, <2>3
<1> QED BY <1>1, InnerCorrect, PTL
=============================================================================
