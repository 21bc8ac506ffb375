----------------------- MODULE IdentityOperatorProofs -----------------------
(***************************************************************************)
(* Proofs about the identity operator, for any objects, intents and number *)
(* of troubles.  The invariant has one part per question: what the work    *)
(* list holds (WorkInv), what the API server and the cache hold            *)
(* (ServerInv, GenInv, FinInv), what the providers hold (StoreInv,         *)
(* Markers), what a cleanup still comes to (SweepInv) and what a           *)
(* reconciliation still comes to (ApplyInv).                               *)
(***************************************************************************)
EXTENDS IdentityOperator, SequenceTheorems, WellFoundedInduction, TLAPS

-----------------------------------------------------------------------------
(* The work list *)

VaultKinds == {VaultEnsure[i] : i \in 1..5}
KeycloakKinds == {KeycloakEnsure[i] : i \in 1..5}
Stage == [op : {"begin", "ensure", "prune", "clean"}, kind : Kinds \cup {"none"}]
Making == {"login", "keycloak", "token", "vault"}
Cleaning == {"finalize", "cleanKeycloak", "cleanToken", "cleanVault", "unfinalize"}
Staged == {"keycloak", "vault", "cleanKeycloak", "cleanVault"}
Steps == {"idle", "addFinalizer", "record"} \cup Making \cup Cleaning

(* The stages that belong to a step of the worker. *)
Fits(step) ==
  {s \in Stage :
     /\ s.op \in IF step \in {"keycloak", "vault"} THEN {"ensure", "prune"} ELSE {"clean"}
     /\ s.kind \in IF step \in {"keycloak", "cleanKeycloak"} THEN KeycloakKinds ELSE VaultKinds
     /\ s.op = "prune" => s.kind # "profile"}

(* The worker's list of stages, and what is left of the first one. *)
WorkInv ==
  /\ pc \in Steps /\ work \in Seq(Stage)
  /\ pc \in Staged <=> work # <<>>
  /\ \A i \in 2..Len(work) : work[i] \in Fits(pc)
  /\ work = <<>> => left = {}
  /\ work # <<>> => /\ work[1].op = "begin" => left = {}
                    /\ work[1].op # "begin" => work[1] \in Fits(pc)
                    /\ left \subseteq Of(work[1].kind)
                    /\ work[1].op = "ensure" => left \subseteq Declared(job.gen)
                    /\ work[1].op = "prune" => left \cap Declared(job.gen) = {}
  /\ seen # Unseen => work # <<>> /\ work[1].op = "ensure" /\ seen.name \in left

(* A set of natural numbers has a least one. *)
LEMMA LeastNumber ==
  ASSUME NEW S \in SUBSET Nat, S # {}
  PROVE  Least(S) \in S /\ \A n \in S : Least(S) <= n
<1>1. \E m \in S : \A n \in S : ~(<<n, m>> \in OpToRel(<, Nat))
  BY Zenon, WFMin, NatLessThanWellFounded
<1>2. PICK m \in S : \A n \in S : ~(<<n, m>> \in OpToRel(<, Nat))
  BY Zenon, <1>1
<1>3. ASSUME NEW n \in S
      PROVE  m <= n
  <2>1. <<n, m>> \notin {ss \in Nat \X Nat : ss[1] < ss[2]}
    BY Zenon, <1>2 DEF OpToRel
  <2> QED
    BY SMTT(30), <2>1
<1> QED
  BY Zenon, <1>3 DEF Least

(* The stages that are worked off next. *)
Busy(i) ==
  /\ Listing(work[i]) # {}
  /\ work[i] = [op |-> "clean", kind |-> "profile"] => result.keycloak = "ready"

From(m) == SubSeq(work, m, Len(work))

LEMMA RemainingStages ==
  ASSUME work \in Seq(Stage)
  PROVE  \/ Remaining = <<>> /\ \A i \in 2..Len(work) : ~Busy(i)
         \/ \E m \in 2..Len(work) :
              /\ Busy(m) /\ \A i \in 2..(m - 1) : ~Busy(i)
              /\ Remaining = From(m)
<1> DEFINE busy == {i \in 2..Len(work) : Busy(i)}
<1>1. Remaining = IF busy = {} THEN <<>> ELSE From(Least(busy))
  BY Zenon DEF Remaining, Busy, From
<1>2. busy \in SUBSET Nat /\ busy \subseteq 2..Len(work) /\ Len(work) \in Nat
  BY SMTT(30), LenProperties
<1>3. CASE busy = {}
  BY Zenon, <1>1, <1>3
<1>4. CASE busy # {}
  <2>1. Least(busy) \in busy /\ \A n \in busy : Least(busy) <= n
    BY Zenon, <1>2, <1>4, LeastNumber
  <2>2. PICK m : m = Least(busy)
    OBVIOUS
  <2>3. m \in 2..Len(work) /\ Busy(m)
    BY Zenon, <2>1, <2>2
  <2>4. \A i \in 2..(m - 1) : i \notin busy
    BY SMTT(30), <1>2, <2>1, <2>2, <2>3
  <2>5. \A i \in 2..(m - 1) : i \in 2..Len(work)
    BY SMTT(30), <1>2, <2>3
  <2> QED
    BY Zenon, <1>1, <1>4, <2>2, <2>3, <2>4, <2>5
<1> QED
  BY Zenon, <1>3, <1>4

(* A list of stages without its first ones. *)
LEMMA Later ==
  ASSUME work \in Seq(Stage), NEW m \in 2..Len(work)
  PROVE  /\ From(m) \in Seq(Stage) /\ From(m) # <<>>
         /\ From(m)[1] = work[m] /\ Head(From(m)) = work[m]
         /\ \A i \in 2..Len(From(m)) : \E j \in (m + 1)..Len(work) : From(m)[i] = work[j]
         /\ \A j \in (m + 1)..Len(work) : \E i \in 2..Len(From(m)) : From(m)[i] = work[j]
<1>1. Len(work) \in Nat /\ \A i \in m..Len(work) : work[i] \in Stage
  BY SMTT(30), ElementOfSeq, LenProperties
<1>2. /\ From(m) \in Seq(Stage) /\ Len(From(m)) = Len(work) - m + 1
      /\ \A i \in 1..Len(work) - m + 1 : From(m)[i] = work[m + i - 1]
  BY SMTT(30), <1>1, SubSeqProperties DEF From
<1>3. Len(From(m)) >= 1 /\ m + 1 - 1 = m
  BY SMTT(30), <1>1, <1>2
<1>4. From(m) # <<>> /\ From(m)[1] = work[m]
  <2>1. From(m) # <<>>
    <3>1. Len(<<>>) = 0
      BY Zenon, EmptySeq
    <3>2. Len(From(m)) # 0
      BY SMTT(30), <1>1, <1>2, <1>3
    <3> QED
      BY Zenon, <3>1, <3>2
  <2>2. 1 \in 1..Len(work) - m + 1
    BY SMTT(30), <1>1
  <2>3. From(m)[1] = work[m + 1 - 1]
    BY Zenon, <1>2, <2>2
  <2> QED
    BY Zenon, <1>3, <2>1, <2>3
<1>5. Head(From(m)) = From(m)[1]
  BY SMTT(30), <1>2, <1>4
<1>6. ASSUME NEW i \in 2..Len(From(m))
      PROVE  \E j \in (m + 1)..Len(work) : From(m)[i] = work[j]
  <2>1. i \in 1..Len(work) - m + 1 /\ m + i - 1 \in (m + 1)..Len(work)
    BY SMTT(30), <1>1, <1>2
  <2> QED
    BY Zenon, <1>2, <2>1
<1>7. ASSUME NEW j \in (m + 1)..Len(work)
      PROVE  \E i \in 2..Len(From(m)) : From(m)[i] = work[j]
  <2>1. /\ j - m + 1 \in 1..Len(work) - m + 1 /\ j - m + 1 \in 2..Len(From(m))
        /\ m + (j - m + 1) - 1 = j
    BY SMTT(30), <1>1, <1>2
  <2> QED
    BY Zenon, <1>2, <2>1
<1> QED
  BY Zenon, <1>2, <1>4, <1>5, <1>6, <1>7

(* The stages of one operation over a list of kinds. *)
LEMMA StageList ==
  ASSUME NEW op \in {"begin", "ensure", "prune", "clean"}, NEW kinds \in Seq(Kinds \cup {"none"})
  PROVE  /\ Stages(op, kinds) \in Seq(Stage) /\ Len(Stages(op, kinds)) = Len(kinds)
         /\ \A i \in 1..Len(kinds) : Stages(op, kinds)[i] = [op |-> op, kind |-> kinds[i]]
<1>1. Len(kinds) \in Nat /\ \A i \in 1..Len(kinds) : kinds[i] \in Kinds \cup {"none"}
  BY Zenon, ElementOfSeq, LenProperties
<1>2. \A i \in 1..Len(kinds) : [op |-> op, kind |-> kinds[i]] \in Stage
  BY SMTT(30), <1>1 DEF Stage
<1>3. Stages(op, kinds) \in [1..Len(kinds) -> Stage]
  BY Zenon, <1>2 DEF Stages
<1>4. Stages(op, kinds) \in Seq(Stage) /\ Len(Stages(op, kinds)) = Len(kinds)
  BY SMTT(30), <1>1, <1>3
<1>5. \A i \in 1..Len(kinds) : Stages(op, kinds)[i] = [op |-> op, kind |-> kinds[i]]
  BY Zenon DEF Stages
<1> QED
  BY Zenon, <1>4, <1>5

(* The lists of kinds. *)
LEMMA KindLists ==
  /\ KeycloakEnsure \in Seq(KeycloakKinds) /\ KeycloakPrune \in Seq(KeycloakKinds \ {"profile"})
  /\ VaultEnsure \in Seq(VaultKinds) /\ VaultPrune \in Seq(VaultKinds)
  /\ KeycloakClean \o <<"profile">> \in Seq(KeycloakKinds)
  /\ \A k \in KeycloakKinds : \E i \in 1..Len(KeycloakEnsure) : KeycloakEnsure[i] = k
  /\ \A k \in VaultKinds : \E i \in 1..Len(VaultEnsure) : VaultEnsure[i] = k
  /\ \A k \in KeycloakKinds \ {"profile"} : \E i \in 1..Len(KeycloakPrune) : KeycloakPrune[i] = k
  /\ \A k \in VaultKinds \ {"role"} : \E i \in 1..Len(VaultPrune) : VaultPrune[i] = k
  /\ \A k \in KeycloakKinds : \E i \in 1..Len(KeycloakClean \o <<"profile">>) :
                                 (KeycloakClean \o <<"profile">>)[i] = k
  /\ KeycloakKinds = {"profile", "user", "group", "scope", "client"}
  /\ VaultKinds = {"mount", "policy", "role", "extgroup", "alias"}
  /\ Kinds = KeycloakKinds \cup VaultKinds
<1>1. KeycloakKinds = {"profile", "user", "group", "scope", "client"}
  BY SMTT(30) DEF KeycloakKinds, KeycloakEnsure
<1>2. VaultKinds = {"mount", "policy", "role", "extgroup", "alias"}
  BY SMTT(30) DEF VaultKinds, VaultEnsure
<1>3. KeycloakEnsure \in Seq(KeycloakKinds) /\ KeycloakPrune \in Seq(KeycloakKinds \ {"profile"})
  BY SMTT(30), <1>1 DEF KeycloakEnsure, KeycloakPrune
<1>4. VaultEnsure \in Seq(VaultKinds) /\ VaultPrune \in Seq(VaultKinds)
  BY SMTT(30), <1>2 DEF VaultEnsure, VaultPrune
<1>5. /\ KeycloakClean \in Seq(KeycloakKinds) /\ <<"profile">> \in Seq(KeycloakKinds)
      /\ Len(KeycloakClean) = 4 /\ Len(<<"profile">>) = 1 /\ <<"profile">>[1] = "profile"
      /\ KeycloakClean[1] = "client" /\ KeycloakClean[2] = "group"
      /\ KeycloakClean[3] = "scope" /\ KeycloakClean[4] = "user"
  BY SMTT(30), <1>1 DEF KeycloakClean
<1>6. /\ KeycloakClean \o <<"profile">> \in Seq(KeycloakKinds)
      /\ Len(KeycloakClean \o <<"profile">>) = Len(KeycloakClean) + Len(<<"profile">>)
      /\ \A i \in 1..Len(KeycloakClean) + Len(<<"profile">>) :
            (KeycloakClean \o <<"profile">>)[i] =
              IF i <= Len(KeycloakClean) THEN KeycloakClean[i]
              ELSE <<"profile">>[i - Len(KeycloakClean)]
  BY Zenon, <1>5, ConcatProperties
<1>7. \A k \in KeycloakKinds : \E i \in 1..Len(KeycloakEnsure) : KeycloakEnsure[i] = k
  <2>1. Len(KeycloakEnsure) = 5
    BY SMTT(30) DEF KeycloakEnsure
  <2> QED
    BY Zenon, <2>1 DEF KeycloakKinds
<1>8. \A k \in VaultKinds : \E i \in 1..Len(VaultEnsure) : VaultEnsure[i] = k
  <2>1. Len(VaultEnsure) = 5
    BY SMTT(30) DEF VaultEnsure
  <2> QED
    BY Zenon, <2>1 DEF VaultKinds
<1>9. \A k \in KeycloakKinds \ {"profile"} : \E i \in 1..Len(KeycloakPrune) : KeycloakPrune[i] = k
  <2>1. /\ {1, 2, 3, 4} \subseteq 1..Len(KeycloakPrune)
        /\ KeycloakPrune[1] = "client" /\ KeycloakPrune[2] = "user"
        /\ KeycloakPrune[3] = "group" /\ KeycloakPrune[4] = "scope"
    BY SMTT(30) DEF KeycloakPrune
  <2> QED
    BY Zenon, <1>1, <2>1
<1>10. \A k \in VaultKinds \ {"role"} : \E i \in 1..Len(VaultPrune) : VaultPrune[i] = k
  <2>1. /\ {1, 2, 3, 4} \subseteq 1..Len(VaultPrune)
        /\ VaultPrune[1] = "alias" /\ VaultPrune[2] = "extgroup"
        /\ VaultPrune[3] = "policy" /\ VaultPrune[4] = "mount"
    BY SMTT(30) DEF VaultPrune
  <2> QED
    BY Zenon, <1>2, <2>1
<1>11. \A k \in KeycloakKinds : \E i \in 1..Len(KeycloakClean \o <<"profile">>) :
                                 (KeycloakClean \o <<"profile">>)[i] = k
  <2> DEFINE list == KeycloakClean \o <<"profile">>
  <2>1. /\ {1, 2, 3, 4, 5} \subseteq 1..Len(list)
        /\ list[1] = "client" /\ list[2] = "group"
        /\ list[3] = "scope" /\ list[4] = "user" /\ list[5] = "profile"
    <3> HIDE DEF list
    <3>1. Len(list) = 5
      BY SMTT(30), <1>5, <1>6 DEF list
    <3>2. \A i \in 1..4 : list[i] = KeycloakClean[i]
      BY SMTT(30), <1>5, <1>6 DEF list
    <3>3. list[5] = <<"profile">>[1]
      BY SMTT(30), <1>5, <1>6 DEF list
    <3> QED
      BY SMTT(30), <1>5, <3>1, <3>2, <3>3
  <2> HIDE DEF list
  <2> QED
    BY Zenon, <1>1, <2>1 DEF list
<1>12. Kinds = KeycloakKinds \cup VaultKinds
  BY Zenon DEF Kinds, KeycloakKinds, VaultKinds
<1> QED
  BY Zenon, <1>1, <1>2, <1>3, <1>4, <1>5, <1>6, <1>7, <1>8, <1>9, <1>10, <1>11, <1>12

(* Entering a step with a list of stages. *)
LEMMA Entered ==
  ASSUME NEW step \in Staged, NEW stages \in Seq(Stage), Enter(step, stages),
         \A i \in 1..Len(stages) : stages[i] \in Fits(step)
  PROVE  /\ WorkInv' /\ work'[1].op = "begin"
         /\ \A i \in 1..Len(stages) : i + 1 \in 2..Len(work') /\ work'[i + 1] = stages[i]
<1> DEFINE first == Stages("begin", <<"none">>)
<1>1. <<"none">> \in Seq(Kinds \cup {"none"}) /\ Len(<<"none">>) = 1
  BY SMTT(30)
<1>2. /\ first \in Seq(Stage) /\ Len(first) = Len(<<"none">>)
      /\ \A i \in 1..Len(<<"none">>) : first[i] = [op |-> "begin", kind |-> <<"none">>[i]]
  BY Zenon, <1>1, StageList
<1>3. Len(stages) \in Nat
  BY Zenon, LenProperties
<1> HIDE DEF first
<1>4. /\ first \o stages \in Seq(Stage) /\ Len(first \o stages) = 1 + Len(stages)
      /\ \A i \in 1..1 + Len(stages) : (first \o stages)[i] = IF i <= 1 THEN first[i] ELSE stages[i - 1]
  <2>1. /\ first \o stages \in Seq(Stage) /\ Len(first \o stages) = Len(first) + Len(stages)
        /\ \A i \in 1..Len(first) + Len(stages) :
             (first \o stages)[i] = IF i <= Len(first) THEN first[i] ELSE stages[i - Len(first)]
    BY Zenon, <1>2, ConcatProperties
  <2>2. Len(first) = 1
    BY Zenon, <1>1, <1>2
  <2> QED
    BY Zenon, <2>1, <2>2
<1>5. pc' = step /\ work' = first \o stages /\ left' = {} /\ seen' = Unseen
  BY Zenon DEF Enter, first
<1>6. work' \in Seq(Stage) /\ Len(work') = 1 + Len(stages)
  BY Zenon, <1>4, <1>5
<1>7. work'[1] = first[1]
  BY SMTT(30), <1>3, <1>4, <1>5
<1>8. work'[1].op = "begin"
  BY SMTT(30), <1>1, <1>2, <1>7
<1>9. \A i \in 1..Len(stages) : i + 1 \in 2..Len(work') /\ work'[i + 1] = stages[i]
  BY SMTT(30), <1>3, <1>4, <1>5
<1>10. ASSUME NEW i \in 2..Len(work')
       PROVE  work'[i] \in Fits(step)
  <2>1. i - 1 \in 1..Len(stages) /\ work'[i] = stages[i - 1]
    BY SMTT(30), <1>3, <1>4, <1>5
  <2> QED
    BY Zenon, <2>1
<1>11. work' # <<>>
  <2>1. Len(<<>>) = 0
    BY Zenon, EmptySeq
  <2>2. Len(work') # 0
    BY SMTT(30), <1>3, <1>6
  <2> QED
    BY Zenon, <2>1, <2>2
<1>12. step \in Steps /\ step \in Staged
  BY Zenon DEF Steps, Staged, Making, Cleaning
<1> QED
  BY Zenon, <1>5, <1>6, <1>8, <1>9, <1>10, <1>11, <1>12 DEF WorkInv

(* A step that has no list of stages. *)
LEMMA WorkEnds ==
  ASSUME pc' \in Steps \ Staged, work' = <<>>, left' = {}, seen' = Unseen
  PROVE  WorkInv'
<1>1. work' \in Seq(Stage) /\ Len(work') = 0
  BY Zenon, EmptySeq
<1>2. 2..Len(work') = {}
  BY SMTT(30), <1>1
<1> QED
  BY Zenon, <1>1, <1>2 DEF WorkInv

(* How an attempt ends. *)
LEMMA Endings ==
  /\ AtRest => /\ pc' = "idle" /\ work' = <<>> /\ left' = {} /\ seen' = Unseen
               /\ job' = Gone /\ result' = NoResult
  /\ \A v : FailWith(v) => /\ pc' = "record" /\ work' = <<>> /\ left' = {} /\ seen' = Unseen
                           /\ job' = job /\ session' = session /\ skipped' = skipped
                           /\ Ready(result') => v = "ready"
<1>1. AtRest => /\ pc' = "idle" /\ work' = <<>> /\ left' = {} /\ seen' = Unseen
                /\ job' = Gone /\ result' = NoResult
  BY Zenon DEF AtRest
<1>2. ASSUME NEW v, FailWith(v)
      PROVE  /\ pc' = "record" /\ work' = <<>> /\ left' = {} /\ seen' = Unseen
             /\ job' = job /\ session' = session /\ skipped' = skipped
  BY Zenon, <1>2 DEF FailWith, Conclude
<1>3. ASSUME NEW v, FailWith(v)
      PROVE  result'.vault \in {"dependency", v}
  BY SMTT(30), <1>3 DEF FailWith, Conclude
<1> QED
  BY Zenon, <1>1, <1>2, <1>3 DEF Ready

(* Part of the first stage is done. *)
LEMMA WorkShrinks ==
  ASSUME WorkInv, UNCHANGED <<pc, work, job, intent>>, left' \subseteq left,
         seen' # Unseen => work # <<>> /\ work[1].op = "ensure" /\ seen'.name \in left'
  PROVE  WorkInv'
<1>1. \A g : Declared(g)' = Declared(g)
  BY Zenon DEF Declared
<1> QED
  BY ZenonT(30), <1>1 DEF WorkInv

(* One list after the other. *)
LEMMA TwoLists ==
  ASSUME NEW a \in Seq(Stage), NEW b \in Seq(Stage), NEW S,
         \A i \in 1..Len(a) : a[i] \in S, \A i \in 1..Len(b) : b[i] \in S
  PROVE  /\ a \o b \in Seq(Stage)
         /\ \A i \in 1..Len(a \o b) : (a \o b)[i] \in S
         /\ \A i \in 1..Len(a) : \E j \in 1..Len(a \o b) : (a \o b)[j] = a[i]
         /\ \A i \in 1..Len(b) : \E j \in 1..Len(a \o b) : (a \o b)[j] = b[i]
<1>1. /\ a \o b \in Seq(Stage) /\ Len(a \o b) = Len(a) + Len(b)
      /\ \A i \in 1..Len(a) + Len(b) : (a \o b)[i] = IF i <= Len(a) THEN a[i] ELSE b[i - Len(a)]
  BY Zenon, ConcatProperties
<1>2. Len(a) \in Nat /\ Len(b) \in Nat
  BY Zenon, LenProperties
<1>3. \A i \in 1..Len(a \o b) : (a \o b)[i] \in S
  BY SMTT(30), <1>1, <1>2
<1>4. \A i \in 1..Len(a) : i \in 1..Len(a \o b) /\ (a \o b)[i] = a[i]
  BY SMTT(30), <1>1, <1>2
<1>5. \A i \in 1..Len(b) : i + Len(a) \in 1..Len(a \o b) /\ (a \o b)[i + Len(a)] = b[i]
  BY SMTT(30), <1>1, <1>2
<1> QED
  BY Zenon, <1>1, <1>3, <1>4, <1>5

(* The stages of a list that are about the kinds of a provider. *)
Covers(stages, op, kinds) ==
  \A k \in kinds : \E i \in 1..Len(stages) : stages[i] = [op |-> op, kind |-> k]

LEMMA StageListCovers ==
  ASSUME NEW op \in {"ensure", "prune", "clean"}, NEW kinds \in Seq(Kinds), NEW K,
         \A k \in K : \E i \in 1..Len(kinds) : kinds[i] = k
  PROVE  Stages(op, kinds) \in Seq(Stage) /\ Covers(Stages(op, kinds), op, K)
<1>1. kinds \in Seq(Kinds \cup {"none"})
  BY SMTT(30)
<1>2. /\ Stages(op, kinds) \in Seq(Stage) /\ Len(Stages(op, kinds)) = Len(kinds)
      /\ \A i \in 1..Len(kinds) : Stages(op, kinds)[i] = [op |-> op, kind |-> kinds[i]]
  <2>1. op \in {"begin", "ensure", "prune", "clean"}
    BY Zenon
  <2> QED
    BY Zenon, <1>1, <2>1, StageList
<1> QED
  BY Zenon, <1>2 DEF Covers

(* The stages of a reconciliation. *)
LEMMA MakingList ==
  ASSUME NEW step \in {"keycloak", "vault"}, NEW K, NEW P,
         K = IF step = "keycloak" THEN KeycloakKinds ELSE VaultKinds, P \subseteq K \ {"profile"},
         NEW ensure \in Seq(K), NEW prune \in Seq(K \ {"profile"}),
         \A k \in K : \E i \in 1..Len(ensure) : ensure[i] = k,
         \A k \in P : \E i \in 1..Len(prune) : prune[i] = k
  PROVE  LET stages == Stages("ensure", ensure) \o Stages("prune", prune)
         IN  /\ stages \in Seq(Stage) /\ \A i \in 1..Len(stages) : stages[i] \in Fits(step)
             /\ Covers(stages, "ensure", K) /\ Covers(stages, "prune", P)
<1> DEFINE a == Stages("ensure", ensure)
           b == Stages("prune", prune)
<1>1. K \subseteq Kinds
  BY Zenon, KindLists
<1>2. ensure \in Seq(Kinds) /\ prune \in Seq(Kinds)
  BY SMTT(30), <1>1
<1>3. a \in Seq(Stage) /\ Covers(a, "ensure", K) /\ b \in Seq(Stage) /\ Covers(b, "prune", P)
  BY Zenon, <1>2, StageListCovers
<1>4. ensure \in Seq(Kinds \cup {"none"}) /\ prune \in Seq(Kinds \cup {"none"})
  BY SMTT(30), <1>2
<1>5. /\ Len(a) = Len(ensure) /\ \A i \in 1..Len(ensure) : a[i] = [op |-> "ensure", kind |-> ensure[i]]
      /\ Len(b) = Len(prune) /\ \A i \in 1..Len(prune) : b[i] = [op |-> "prune", kind |-> prune[i]]
  BY Zenon, <1>4, StageList
<1>6. /\ \A i \in 1..Len(ensure) : ensure[i] \in K
      /\ \A i \in 1..Len(prune) : prune[i] \in K \ {"profile"}
  BY Zenon, ElementOfSeq
<1>7. /\ \A k \in K : [op |-> "ensure", kind |-> k] \in Fits(step)
      /\ \A k \in K \ {"profile"} : [op |-> "prune", kind |-> k] \in Fits(step)
  BY SMTT(30), <1>1 DEF Fits, Stage
<1> HIDE DEF a, b
<1>8. ASSUME NEW i \in 1..Len(a)
      PROVE  a[i] \in Fits(step)
  <2>1. i \in 1..Len(ensure)
    BY Zenon, <1>5
  <2>2. a[i] = [op |-> "ensure", kind |-> ensure[i]] /\ ensure[i] \in K
    BY Zenon, <1>5, <1>6, <2>1
  <2> QED
    BY Zenon, <1>7, <2>2
<1>9. ASSUME NEW i \in 1..Len(b)
      PROVE  b[i] \in Fits(step)
  <2>1. i \in 1..Len(prune)
    BY Zenon, <1>5
  <2>2. b[i] = [op |-> "prune", kind |-> prune[i]] /\ prune[i] \in K \ {"profile"}
    BY Zenon, <1>5, <1>6, <2>1
  <2> QED
    BY Zenon, <1>7, <2>2
<1>10. /\ a \o b \in Seq(Stage)
       /\ \A i \in 1..Len(a \o b) : (a \o b)[i] \in Fits(step)
       /\ \A i \in 1..Len(a) : \E j \in 1..Len(a \o b) : (a \o b)[j] = a[i]
       /\ \A i \in 1..Len(b) : \E j \in 1..Len(a \o b) : (a \o b)[j] = b[i]
  BY Zenon, <1>3, <1>8, <1>9, TwoLists
<1>11. Covers(a \o b, "ensure", K)
  <2> SUFFICES ASSUME NEW k \in K
               PROVE  \E i \in 1..Len(a \o b) : (a \o b)[i] = [op |-> "ensure", kind |-> k]
    BY Zenon DEF Covers
  <2>1. PICK i \in 1..Len(a) : a[i] = [op |-> "ensure", kind |-> k]
    BY Zenon, <1>3 DEF Covers
  <2>2. PICK j \in 1..Len(a \o b) : (a \o b)[j] = a[i]
    BY Zenon, <1>10
  <2> QED
    BY Zenon, <2>1, <2>2
<1>12. Covers(a \o b, "prune", P)
  <2> SUFFICES ASSUME NEW k \in P
               PROVE  \E i \in 1..Len(a \o b) : (a \o b)[i] = [op |-> "prune", kind |-> k]
    BY Zenon DEF Covers
  <2>1. PICK i \in 1..Len(b) : b[i] = [op |-> "prune", kind |-> k]
    BY Zenon, <1>3 DEF Covers
  <2>2. PICK j \in 1..Len(a \o b) : (a \o b)[j] = b[i]
    BY Zenon, <1>10
  <2> QED
    BY Zenon, <2>1, <2>2
<1> QED
  BY Zenon, <1>10, <1>11, <1>12 DEF a, b

(* The stages of a cleanup. *)
LEMMA CleaningList ==
  ASSUME NEW step \in {"cleanKeycloak", "cleanVault"}, NEW K, NEW P,
         K = IF step = "cleanKeycloak" THEN KeycloakKinds ELSE VaultKinds,
         NEW clean \in Seq(K), \A k \in P : \E i \in 1..Len(clean) : clean[i] = k
  PROVE  LET stages == Stages("clean", clean)
         IN  /\ stages \in Seq(Stage) /\ \A i \in 1..Len(stages) : stages[i] \in Fits(step)
             /\ Covers(stages, "clean", P)
<1> DEFINE a == Stages("clean", clean)
<1>1. K \subseteq Kinds
  BY Zenon, KindLists
<1>2. clean \in Seq(Kinds)
  BY SMTT(30), <1>1
<1>3. a \in Seq(Stage) /\ Covers(a, "clean", P)
  BY Zenon, <1>2, StageListCovers
<1>4. clean \in Seq(Kinds \cup {"none"})
  BY SMTT(30), <1>2
<1>5. Len(a) = Len(clean) /\ \A i \in 1..Len(clean) : a[i] = [op |-> "clean", kind |-> clean[i]]
  BY Zenon, <1>4, StageList
<1>6. \A i \in 1..Len(clean) : clean[i] \in K
  BY Zenon, ElementOfSeq
<1>7. \A k \in K : [op |-> "clean", kind |-> k] \in Fits(step)
  BY SMTT(30), <1>1 DEF Fits, Stage
<1> HIDE DEF a
<1>8. ASSUME NEW i \in 1..Len(a)
      PROVE  a[i] \in Fits(step)
  <2>1. i \in 1..Len(clean)
    BY Zenon, <1>5
  <2>2. a[i] = [op |-> "clean", kind |-> clean[i]] /\ clean[i] \in K
    BY Zenon, <1>5, <1>6, <2>1
  <2> QED
    BY Zenon, <1>7, <2>2
<1> QED
  BY Zenon, <1>3, <1>8 DEF a

(* What each provider step starts with. *)
LEMMA KeycloakList ==
  LET stages == Stages("ensure", KeycloakEnsure) \o Stages("prune", KeycloakPrune)
  IN  /\ stages \in Seq(Stage) /\ \A i \in 1..Len(stages) : stages[i] \in Fits("keycloak")
      /\ Covers(stages, "ensure", KeycloakKinds) /\ Covers(stages, "prune", KeycloakKinds \ {"profile"})
<1>1. KeycloakEnsure \in Seq(KeycloakKinds) /\ KeycloakPrune \in Seq(KeycloakKinds \ {"profile"})
  BY Zenon, KindLists
<1>2. /\ \A k \in KeycloakKinds : \E i \in 1..Len(KeycloakEnsure) : KeycloakEnsure[i] = k
      /\ \A k \in KeycloakKinds \ {"profile"} : \E i \in 1..Len(KeycloakPrune) : KeycloakPrune[i] = k
  BY Zenon, KindLists
<1>3. "keycloak" \in {"keycloak", "vault"} /\ KeycloakKinds \ {"profile"} \subseteq KeycloakKinds \ {"profile"}
  BY Zenon
<1> QED
  BY Zenon, <1>1, <1>2, <1>3, MakingList

LEMMA VaultList ==
  LET stages == Stages("ensure", VaultEnsure) \o Stages("prune", VaultPrune)
  IN  /\ stages \in Seq(Stage) /\ \A i \in 1..Len(stages) : stages[i] \in Fits("vault")
      /\ Covers(stages, "ensure", VaultKinds) /\ Covers(stages, "prune", VaultKinds \ {"role"})
<1>1. VaultKinds = VaultKinds \ {"profile"}
  BY Zenon, KindLists
<1>2. VaultEnsure \in Seq(VaultKinds) /\ VaultPrune \in Seq(VaultKinds \ {"profile"})
  BY Zenon, <1>1, KindLists
<1>3. /\ \A k \in VaultKinds : \E i \in 1..Len(VaultEnsure) : VaultEnsure[i] = k
      /\ \A k \in VaultKinds \ {"role"} : \E i \in 1..Len(VaultPrune) : VaultPrune[i] = k
  BY Zenon, KindLists
<1>4. "vault" \in {"keycloak", "vault"} /\ VaultKinds \ {"role"} \subseteq VaultKinds \ {"profile"}
  BY Zenon, <1>1
<1>5. VaultKinds = IF "vault" = "keycloak" THEN KeycloakKinds ELSE VaultKinds
  BY Zenon
<1> QED
  BY Zenon, <1>2, <1>3, <1>4, <1>5, MakingList

LEMMA CleanKeycloakList ==
  LET stages == Stages("clean", KeycloakClean \o <<"profile">>)
  IN  /\ stages \in Seq(Stage) /\ \A i \in 1..Len(stages) : stages[i] \in Fits("cleanKeycloak")
      /\ Covers(stages, "clean", KeycloakKinds)
<1> DEFINE clean == KeycloakClean \o <<"profile">>
<1>1. clean \in Seq(KeycloakKinds) /\ \A k \in KeycloakKinds : \E i \in 1..Len(clean) : clean[i] = k
  BY Zenon, KindLists
<1>2. "cleanKeycloak" \in {"cleanKeycloak", "cleanVault"}
  BY Zenon
<1> HIDE DEF clean
<1>3. LET stages == Stages("clean", clean)
      IN  /\ stages \in Seq(Stage) /\ \A i \in 1..Len(stages) : stages[i] \in Fits("cleanKeycloak")
          /\ Covers(stages, "clean", KeycloakKinds)
  BY Zenon, <1>1, <1>2, CleaningList
<1> QED
  BY Zenon, <1>3 DEF clean

LEMMA CleanVaultList ==
  LET stages == Stages("clean", VaultPrune)
  IN  /\ stages \in Seq(Stage) /\ \A i \in 1..Len(stages) : stages[i] \in Fits("cleanVault")
      /\ Covers(stages, "clean", VaultKinds \ {"role"})
<1>1. VaultPrune \in Seq(VaultKinds)
  BY Zenon, KindLists
<1>2. \A k \in VaultKinds \ {"role"} : \E i \in 1..Len(VaultPrune) : VaultPrune[i] = k
  BY Zenon, KindLists
<1>3. /\ "cleanVault" \in {"cleanKeycloak", "cleanVault"}
      /\ VaultKinds = IF "cleanVault" = "cleanKeycloak" THEN KeycloakKinds ELSE VaultKinds
  BY Zenon
<1> QED
  BY Zenon, <1>1, <1>2, <1>3, CleaningList

(* What a stage handles is of its kind. *)
LEMMA ListingFits ==
  ASSUME NEW stage \in Stage
  PROVE  /\ Listing(stage) \subseteq Of(stage.kind)
         /\ stage.op = "ensure" => Listing(stage) \subseteq Declared(job.gen)
         /\ stage.op = "prune" /\ stage.kind # "profile" => Listing(stage) \cap Declared(job.gen) = {}
BY Zenon DEF Listing

(* The next stage with something to do. *)
LEMMA WorkAdvances ==
  ASSUME WorkInv, pc' = pc, seen = Unseen, UNCHANGED <<seen, job, intent>>,
         NEW m \in 2..Len(work), work' = From(m),
         left' = {} \/ left' = Listing(work[m])
  PROVE  WorkInv'
<1>1. work \in Seq(Stage) /\ pc \in Steps /\ \A i \in 2..Len(work) : work[i] \in Fits(pc)
  BY Zenon DEF WorkInv
<1>2. work # <<>>
  <2>1. Len(<<>>) = 0
    BY Zenon, EmptySeq
  <2>2. Len(work) # 0
    BY SMTT(30), <1>1, LenProperties
  <2> QED
    BY Zenon, <2>1, <2>2
<1>3. /\ work' \in Seq(Stage) /\ work' # <<>> /\ work'[1] = work[m]
      /\ \A i \in 2..Len(work') : \E j \in (m + 1)..Len(work) : work'[i] = work[j]
  BY Zenon, <1>1, Later
<1>4. (m + 1)..Len(work) \subseteq 2..Len(work)
  BY SMTT(30), <1>1, LenProperties
<1>5. \A i \in 2..Len(work') : work'[i] \in Fits(pc)
  BY Zenon, <1>1, <1>3, <1>4
<1>6. work[m] \in Fits(pc) /\ work[m] \in Stage
  BY Zenon, <1>1 DEF Fits
<1>7. /\ left' \subseteq Of(work[m].kind)
      /\ work[m].op = "ensure" => left' \subseteq Declared(job.gen)
      /\ work[m].op = "prune" => left' \cap Declared(job.gen) = {}
  BY Zenon, <1>6, ListingFits DEF Fits
<1>8. work[m].op # "begin"
  BY Zenon, <1>6 DEF Fits
<1>9. \A g : Declared(g)' = Declared(g)
  BY Zenon DEF Declared
<1>10. pc \in Staged
  BY Zenon, <1>2 DEF WorkInv
<1> QED
  BY ZenonT(30), <1>1, <1>3, <1>5, <1>6, <1>7, <1>8, <1>9, <1>10 DEF WorkInv

(* What one step of the worker does to its list of stages. *)
LEMMA WorkStep == WorkInv /\ [Next]_vars => WorkInv'
<1> SUFFICES ASSUME WorkInv, [Next]_vars
             PROVE  WorkInv'
  OBVIOUS
<1>0. {"idle", "record", "login", "addFinalizer", "finalize", "token", "cleanToken", "unfinalize"}
        \subseteq Steps \ Staged
  BY Zenon DEF Steps, Staged, Making, Cleaning
<1>01. pc \notin Staged => work = <<>> /\ left = {} /\ seen = Unseen
  BY Zenon DEF WorkInv
<1>02. AtRest => WorkInv'
  BY Zenon, <1>0, Endings, WorkEnds
<1>03. ASSUME NEW v, FailWith(v)
       PROVE  WorkInv'
  <2>1. pc' = "record" /\ work' = <<>> /\ left' = {} /\ seen' = Unseen
    BY Zenon, <1>03 DEF FailWith, Conclude
  <2> QED
    BY Zenon, <1>0, <2>1, WorkEnds
<1>04. work # <<>> => Head(work) = work[1]
  BY SMTT(30) DEF WorkInv
<1>1. CASE Start
  <2>1. CASE ~(~cache.exists \/ (cache.deleted /\ ~cache.finalizer))
    <3>1. pc' \in {"finalize", "record", "addFinalizer", "login"} /\ UNCHANGED <<work, left, seen>>
      BY Zenon, <1>1, <2>1 DEF Start
    <3>2. pc = "idle"
      BY Zenon, <1>1 DEF Start
    <3>3. work' = <<>> /\ left' = {} /\ seen' = Unseen
      BY Zenon, <1>0, <1>01, <3>1, <3>2
    <3> QED
      BY Zenon, <1>0, <3>1, <3>3, WorkEnds
  <2> QED
    BY Zenon, <1>1, <1>02, <2>1 DEF Start
<1>2. CASE AddFinalizer \/ Unfinalize \/ Record \/ PatchFails \/ Crash
  BY Zenon, <1>02, <1>2 DEF AddFinalizer, Unfinalize, Record, PatchFails, Crash
<1>3. CASE Login
  <2>1. Enter("keycloak", Stages("ensure", KeycloakEnsure) \o Stages("prune", KeycloakPrune))
    BY Zenon, <1>3 DEF Login
  <2>2. "keycloak" \in Staged
    BY Zenon DEF Staged
  <2> QED
    BY Zenon, <2>1, <2>2, KeycloakList, Entered
<1>4. CASE LoginFails
  BY Zenon, <1>4, <1>03 DEF LoginFails
<1>5. CASE ReadToken
  <2>1. CASE Enter("vault", Stages("ensure", VaultEnsure) \o Stages("prune", VaultPrune))
    <3>1. "vault" \in Staged
      BY Zenon DEF Staged
    <3> QED
      BY Zenon, <2>1, <3>1, VaultList, Entered
  <2> QED
    BY Zenon, <1>5, <1>03, <2>1 DEF ReadToken
<1>6. ASSUME NEW o \in Obj, Look(o)
      PROVE  WorkInv'
  <2>1. CASE store[o] # Foreign
    <3>1. UNCHANGED <<pc, work, job, intent, left>> /\ o \in left
      BY Zenon, <1>6, <2>1 DEF Look, server
    <3>3. seen'.name = o
      BY SMTT(30), <1>6, <2>1 DEF Look
    <3>2. work # <<>> /\ work[1].op = "ensure"
      BY Zenon, <1>6, <1>04 DEF Look, Writing
    <3> QED
      BY Zenon, <3>1, <3>2, <3>3, WorkShrinks
  <2> QED
    BY Zenon, <1>6, <1>03, <2>1 DEF Look
<1>7. CASE Write
  <2>1. CASE Accepted(seen.name, seen.was) /\ ~Blocked(seen.name)
    <3>1. UNCHANGED <<pc, work, job, intent>> /\ left' \subseteq left /\ seen' = Unseen
      BY Zenon, <1>7, <2>1 DEF Write, server
    <3> QED
      BY Zenon, <3>1, WorkShrinks
  <2> QED
    BY Zenon, <1>7, <1>03, <2>1 DEF Write
<1>8. CASE WriteFails
  BY Zenon, <1>8, <1>03 DEF WriteFails
<1>9. ASSUME NEW o \in Obj, Delete(o) \/ DeleteFails(o)
      PROVE  WorkInv'
  <2>1. PICK v : AfterDelete(o, v)
    BY Zenon, <1>9 DEF Delete, DeleteFails
  <2>2. Pruning /\ UNCHANGED intent
    BY Zenon, <1>9 DEF Delete, DeleteFails, server
  <2>3. CASE v = "ready" \/ InKeycloak(o)
    <3>1. UNCHANGED <<pc, work, job, seen>> /\ left' \subseteq left
      BY Zenon, <2>1, <2>3 DEF AfterDelete
    <3>2. seen = Unseen
      BY Zenon, <1>04, <2>2 DEF Pruning, WorkInv
    <3> QED
      BY Zenon, <2>2, <3>1, <3>2, WorkShrinks
  <2> QED
    BY Zenon, <1>03, <2>1, <2>3 DEF AfterDelete
<1>10. CASE Advance
  <2>1. CASE pc = "keycloak" /\ result.keycloak # "ready"
    BY Zenon, <1>10, <1>03, <2>1 DEF Advance
  <2>2. CASE ~(pc = "keycloak" /\ result.keycloak # "ready")
    <3>1. /\ work # <<>> /\ left = {} /\ seen = Unseen /\ work' = Remaining
          /\ UNCHANGED <<job, seen, intent>>
      BY Zenon, <1>10, <2>2 DEF Advance, server
    <3>2. CASE Remaining = <<>>
      <4>1. Finished /\ left' = {} /\ work' = <<>> /\ seen' = Unseen
        BY Zenon, <1>10, <2>2, <3>1, <3>2 DEF Advance
      <4>2. pc' \in {"token", "record", "cleanToken", "unfinalize"}
        BY Zenon, <4>1 DEF Finished
      <4> QED
        BY Zenon, <1>0, <4>1, <4>2, WorkEnds
    <3>3. CASE Remaining # <<>>
      <4>1. pc' = pc /\ left' = Listing(Head(Remaining))
        BY Zenon, <1>10, <2>2, <3>3 DEF Advance
      <4>2. work \in Seq(Stage)
        BY Zenon DEF WorkInv
      <4>3. PICK m \in 2..Len(work) : Remaining = From(m)
        BY Zenon, <3>3, <4>2, RemainingStages
      <4>4. Head(Remaining) = work[m]
        BY Zenon, <4>2, <4>3, Later
      <4> QED
        BY Zenon, <3>1, <4>1, <4>3, <4>4, WorkAdvances
    <3> QED
      BY Zenon, <3>2, <3>3
  <2> QED
    BY Zenon, <2>1, <2>2
<1>11. CASE ListFails
  <2>1. CASE pc = "cleanKeycloak"
    <3>1. PICK i \in 2..Len(work) : work' = From(i) /\ left' = {} /\ UNCHANGED <<pc, job, seen>>
      BY Zenon, <1>11, <2>1 DEF ListFails, From
    <3>2. seen = Unseen /\ UNCHANGED intent
      BY Zenon, <1>11 DEF ListFails, server
    <3> QED
      BY Zenon, <3>1, <3>2, WorkAdvances
  <2> QED
    BY Zenon, <1>11, <1>03, <2>1 DEF ListFails
<1>12. ASSUME NEW ca, NEW credentials, FinalizeKeycloak(ca, credentials)
       PROVE  WorkInv'
  <2>1. CASE {ca, credentials} = {"ok"}
    <3>1. Enter("cleanKeycloak", Stages("clean", KeycloakClean \o <<"profile">>))
      BY Zenon, <1>12, <2>1 DEF FinalizeKeycloak
    <3>2. "cleanKeycloak" \in Staged
      BY Zenon DEF Staged
    <3> QED
      BY Zenon, <3>1, <3>2, CleanKeycloakList, Entered
  <2>2. CASE {ca, credentials} # {"ok"}
    <3>1. pc = "finalize" /\ pc' = "cleanToken" /\ UNCHANGED <<work, left, seen>>
      BY Zenon, <1>12, <2>2 DEF FinalizeKeycloak
    <3> QED
      BY Zenon, <1>0, <1>01, <3>1, WorkEnds
  <2> QED
    BY Zenon, <2>1, <2>2
<1>13. ASSUME NEW token, FinalizeVault(token)
       PROVE  WorkInv'
  <2>1. CASE Enter("cleanVault", Stages("clean", VaultPrune))
    <3>1. "cleanVault" \in Staged
      BY Zenon DEF Staged
    <3> QED
      BY Zenon, <2>1, <3>1, CleanVaultList, Entered
  <2>2. CASE Finished /\ UNCHANGED <<job, work, left, seen, session, trust>>
    <3>1. pc = "cleanToken" /\ UNCHANGED <<work, left, seen>>
      BY Zenon, <1>13, <2>2 DEF FinalizeVault
    <3>2. pc' \in {"unfinalize", "record"}
      BY Zenon, <2>2, <3>1 DEF Finished
    <3> QED
      BY Zenon, <1>0, <1>01, <3>1, <3>2, WorkEnds
  <2> QED
    BY Zenon, <1>13, <1>03, <2>1, <2>2 DEF FinalizeVault
<1>14. CASE Specify
  <2>1. AtServer /\ UNCHANGED <<pc, work, left, seen>>
    BY Zenon, <1>14 DEF Specify, workerVars
  <2> QED
    BY Zenon, <1>0, <1>01, <2>1, WorkEnds DEF AtServer
<1>15. CASE UNCHANGED <<pc, work, left, seen, job, intent>>
  <2>1. seen # Unseen => work # <<>> /\ work[1].op = "ensure" /\ seen.name \in left
    BY Zenon DEF WorkInv
  <2> QED
    BY Zenon, <1>15, <2>1, WorkShrinks
<1>16. CASE Deliver \/ TimerFires \/ DeleteObject \/ UNCHANGED vars
  BY Zenon, <1>15, <1>16 DEF Deliver, TimerFires, DeleteObject, vars, workerVars, server
<1>17. ASSUME NEW o \in Obj, Meddle(o) \/ Repair(o)
       PROVE  WorkInv'
  BY Zenon, <1>15, <1>17 DEF Meddle, Repair, workerVars, server
<1>18. ASSUME NEW s \in Sources, Lose(s) \/ Supply(s)
       PROVE  WorkInv'
  BY Zenon, <1>15, <1>18 DEF Lose, Supply, workerVars, server
<1> QED
  BY ZenonT(30), <1>1, <1>2, <1>3, <1>4, <1>5, <1>6, <1>7, <1>8, <1>9, <1>10, <1>11, <1>12, <1>13,
     <1>14, <1>16, <1>17, <1>18 DEF Next, Worker, Environment

-----------------------------------------------------------------------------
(* The configuration in the API server, the cache and the worker's copy *)

Declarations == SUBSET Obj \cup {Malformed}
Results == [keycloak : Verdicts, vault : Verdicts]
Status == [observed : 0..MaxGen, failures : 0..FailureCap,
           conds : [gen : 0..MaxGen, keycloak : Verdicts, vault : Verdicts]]
Config == [exists : BOOLEAN, gen : 0..MaxGen, deleted : BOOLEAN, finalizer : BOOLEAN, status : Status]

(* The configuration, its copies, and the outcome of the attempt. *)
ServerInv ==
  /\ object \in Config /\ cache \in Config /\ job \in Config /\ result \in Results
  /\ intent \in Seq(Declarations) /\ Len(intent) <= MaxGen
  /\ \A g \in DOMAIN intent : intent[g] \in Intents[g]

LEMMA Numbers == MaxGen \in Nat /\ FailureCap \in Nat
BY SMTT(30), OperatorAssumption, LenProperties DEF MaxGen

(* The updates of a configuration. *)
LEMMA Updates ==
  ASSUME NEW c \in Config
  PROVE  /\ \A b \in BOOLEAN : [c EXCEPT !.finalizer = b] \in Config
         /\ [c EXCEPT !.deleted = TRUE] \in Config
         /\ \A s \in Status : [c EXCEPT !.status = s] \in Config
         /\ \A n \in 0..MaxGen : [c EXCEPT !.exists = TRUE, !.gen = n] \in Config
<1> USE DEF Config
<1>1. \A b \in BOOLEAN : [c EXCEPT !.finalizer = b] \in Config
  BY Zenon
<1>2. [c EXCEPT !.deleted = TRUE] \in Config
  BY Zenon
<1>3. \A s \in Status : [c EXCEPT !.status = s] \in Config
  BY Zenon
<1>4. \A n \in 0..MaxGen : [c EXCEPT !.exists = TRUE, !.gen = n] \in Config
  BY Zenon
<1> QED
  BY Zenon, <1>1, <1>2, <1>3, <1>4

LEMMA GoneFits == Gone \in Config /\ NoResult \in Results
<1>1. 0 \in 0..MaxGen /\ 0 \in 0..FailureCap /\ "none" \in Verdicts
  BY SMTT(30), Numbers DEF Verdicts
<1> QED
  BY Zenon, <1>1 DEF Gone, NoStatus, NoResult, Results, Config, Status

LEMMA PatchedFits ==
  ASSUME ServerInv
  PROVE  Patched \in Status
<1> DEFINE conds == [gen |-> job.gen, keycloak |-> result.keycloak, vault |-> result.vault]
           before == IF job.status.observed # job.gen THEN 0 ELSE job.status.failures
           failures == IF Ready(conds) THEN 0 ELSE IF before < FailureCap THEN before + 1 ELSE before
<1>1. /\ job.gen \in 0..MaxGen /\ result.keycloak \in Verdicts /\ result.vault \in Verdicts
      /\ job.status \in Status /\ object.status \in Status
  BY Zenon DEF ServerInv, Config, Results
<1>2. job.status.failures \in 0..FailureCap
  BY Zenon, <1>1 DEF Status
<1>3. before \in 0..FailureCap
  BY SMTT(30), <1>2, Numbers
<1>4. failures \in 0..FailureCap
  BY SMTT(30), <1>3, Numbers
<1>5. NewStatus = [observed |-> job.gen, conds |-> conds, failures |-> failures]
  BY Zenon DEF NewStatus
<1> HIDE DEF failures, before
<1>6. NewStatus \in Status
  BY Zenon, <1>1, <1>4, <1>5 DEF Status
<1>7. DOMAIN NoStatus = {"observed", "failures", "conds"}
  BY SMTT(30) DEF NoStatus
<1> HIDE DEF conds
<1>8. Patched = [f \in {"observed", "failures", "conds"} |->
                   IF NewStatus[f] = job.status[f] THEN object.status[f] ELSE NewStatus[f]]
  BY Zenon, <1>7 DEF Patched
<1>9. /\ Patched.observed \in {object.status.observed, NewStatus.observed}
      /\ Patched.failures \in {object.status.failures, NewStatus.failures}
      /\ Patched.conds \in {object.status.conds, NewStatus.conds}
      /\ Patched = [observed |-> Patched.observed, failures |-> Patched.failures, conds |-> Patched.conds]
  BY SMTT(30), <1>8
<1>10. /\ Patched.observed \in 0..MaxGen /\ Patched.failures \in 0..FailureCap
       /\ Patched.conds \in [gen : 0..MaxGen, keycloak : Verdicts, vault : Verdicts]
  BY Zenon, <1>1, <1>6, <1>9 DEF Status
<1> QED
  BY SMTT(30), <1>9, <1>10 DEF Status

(* A verdict ends up in the result. *)
LEMMA FailWithFits ==
  ASSUME ServerInv, NEW v \in Verdicts, FailWith(v)
  PROVE  result' \in Results /\ job' = job
<1>1. result.keycloak \in Verdicts /\ "dependency" \in Verdicts
  BY Zenon DEF ServerInv, Results, Verdicts
<1> QED
  BY SMTT(30), <1>1 DEF FailWith, Conclude, Results

(* A step of the worker that leaves the API server and the informer alone. *)
LEMMA ServerKept ==
  ASSUME ServerInv, UNCHANGED <<object, cache, intent>>, job' \in {job, Gone, cache}, result' \in Results
  PROVE  ServerInv'
BY Zenon, GoneFits DEF ServerInv

LEMMA RestFits ==
  ASSUME ServerInv, AtRest
  PROVE  job' \in Config /\ result' \in Results /\ job' = Gone
BY Zenon, GoneFits DEF AtRest

(* Updating one verdict. *)
LEMMA ResultUpdates ==
  ASSUME ServerInv
  PROVE  /\ \A v \in Verdicts : [result EXCEPT !.keycloak = v] \in Results
         /\ \A v \in Verdicts : [result EXCEPT !.vault = v] \in Results
         /\ [NoResult EXCEPT !.keycloak = "ready"] \in Results
         /\ \A v \in Verdicts, w \in Verdicts : [keycloak |-> v, vault |-> w] \in Results
         /\ {"ready", "transient", "conflict", "dependency", "invalid"} \subseteq Verdicts
         /\ result.keycloak \in Verdicts
<1>1. {"ready", "transient", "conflict", "dependency", "invalid"} \subseteq Verdicts
  BY Zenon DEF Verdicts
<1>2. /\ \A v \in Verdicts : [result EXCEPT !.keycloak = v] \in Results
      /\ \A v \in Verdicts : [result EXCEPT !.vault = v] \in Results
  BY Zenon DEF ServerInv, Results
<1>3. [NoResult EXCEPT !.keycloak = "ready"] \in Results
  BY Zenon, <1>1, GoneFits DEF Results
<1>4. \A v \in Verdicts, w \in Verdicts : [keycloak |-> v, vault |-> w] \in Results
  BY Zenon DEF Results
<1>5. result.keycloak \in Verdicts
  BY Zenon DEF ServerInv, Results
<1> QED
  BY Zenon, <1>1, <1>2, <1>3, <1>4, <1>5

LEMMA FinishedFits ==
  ASSUME ServerInv, Finished
  PROVE  result' \in Results
BY Zenon, ResultUpdates DEF ServerInv, Finished

LEMMA AfterDeleteFits ==
  ASSUME ServerInv, NEW o, NEW v \in Verdicts, AfterDelete(o, v)
  PROVE  result' \in Results /\ job' = job
BY Zenon, ResultUpdates, FailWithFits DEF ServerInv, AfterDelete

LEMMA ServerStep == ServerInv /\ [Next]_vars => ServerInv'
<1> SUFFICES ASSUME ServerInv, [Next]_vars
             PROVE  ServerInv'
  OBVIOUS
<1>0. {"ready", "transient", "conflict", "dependency", "invalid"} \subseteq Verdicts
  BY Zenon, ResultUpdates
<1>1. CASE Start
  <2>1. UNCHANGED <<object, cache, intent>>
    BY Zenon, <1>1 DEF Start, server
  <2>2. AtRest \/ (job' = cache /\ result' \in {[keycloak |-> "invalid", vault |-> "invalid"], NoResult})
    BY Zenon, <1>1 DEF Start
  <2> QED
    BY Zenon, <1>0, <2>1, <2>2, RestFits, ResultUpdates, GoneFits, ServerKept
<1>2. CASE AddFinalizer
  <2>1. object.exists \in BOOLEAN
    BY Zenon DEF ServerInv, Config
  <2>2. object' \in Config
    BY Zenon, <1>2, <2>1, Updates DEF AddFinalizer, ServerInv
  <2> QED
    BY Zenon, <1>2, <2>2, RestFits DEF AddFinalizer, ServerInv
<1>3. CASE Login \/ LoginFails \/ ReadToken
  <2>1. UNCHANGED <<object, cache, intent, job>>
    BY Zenon, <1>3, Endings DEF Login, LoginFails, ReadToken, FailWith, Conclude, server, inbox
  <2>2. result' \in Results
    BY Zenon, <1>0, <1>3, FailWithFits, ResultUpdates DEF Login, LoginFails, ReadToken, ServerInv
  <2> QED
    BY Zenon, <2>1, <2>2, ServerKept
<1>4. ASSUME NEW o \in Obj, Look(o) \/ Delete(o) \/ DeleteFails(o)
      PROVE  ServerInv'
  <2>1. UNCHANGED <<object, cache, intent>>
    BY Zenon, <1>4 DEF Look, Delete, DeleteFails, server, inbox
  <2>2. Refusal(o) \in Verdicts
    BY Zenon, <1>0 DEF Refusal
  <2>3. result' \in Results /\ job' = job
    BY Zenon, <1>0, <1>4, <2>2, FailWithFits, AfterDeleteFits DEF Look, Delete, DeleteFails, ServerInv
  <2> QED
    BY Zenon, <2>1, <2>3, ServerKept
<1>5. CASE Write \/ WriteFails
  <2>1. UNCHANGED <<object, cache, intent>>
    BY Zenon, <1>5 DEF Write, WriteFails, server, inbox
  <2>2. (UNCHANGED <<result, job>>) \/ FailWith("conflict") \/ FailWith("transient")
    BY Zenon, <1>5 DEF Write, WriteFails
  <2>3. result' \in Results /\ job' = job
    BY Zenon, <1>0, <2>2, FailWithFits DEF ServerInv
  <2> QED
    BY Zenon, <2>1, <2>3, ServerKept
<1>6. CASE Advance
  <2>1. UNCHANGED <<object, cache, intent>>
    BY Zenon, <1>6 DEF Advance, server, inbox
  <2>2. FailWith(result.keycloak) \/ (job' = job /\ (Finished \/ UNCHANGED result))
    BY Zenon, <1>6 DEF Advance
  <2>3. result' \in Results /\ job' = job
    BY Zenon, <2>2, FailWithFits, FinishedFits, ResultUpdates DEF ServerInv
  <2> QED
    BY Zenon, <2>1, <2>3, ServerKept
<1>7. CASE ListFails
  <2>1. UNCHANGED <<object, cache, intent>>
    BY Zenon, <1>7 DEF ListFails, server, inbox
  <2>2. FailWith("transient") \/ (job' = job /\ result' = [result EXCEPT !.keycloak = "transient"])
    BY Zenon, <1>7 DEF ListFails
  <2>3. result' \in Results /\ job' = job
    BY Zenon, <1>0, <2>2, FailWithFits, ResultUpdates
  <2> QED
    BY Zenon, <2>1, <2>3, ServerKept
<1>8. ASSUME NEW ca, NEW credentials, FinalizeKeycloak(ca, credentials)
      PROVE  ServerInv'
  <2>1. UNCHANGED <<object, cache, intent, job>>
    BY Zenon, <1>8 DEF FinalizeKeycloak, server, inbox
  <2>2. result' \in {[keycloak |-> "transient", vault |-> "ready"], [keycloak |-> "ready", vault |-> "ready"]}
    BY Zenon, <1>8 DEF FinalizeKeycloak
  <2>3. result' \in Results
    BY Zenon, <1>0, <2>2, ResultUpdates
  <2> QED
    BY Zenon, <2>1, <2>3, ServerKept
<1>9. ASSUME NEW token, FinalizeVault(token)
      PROVE  ServerInv'
  <2>1. UNCHANGED <<object, cache, intent>>
    BY Zenon, <1>9 DEF FinalizeVault, server, inbox
  <2>2. FailWith("transient") \/ (job' = job /\ (Finished \/ UNCHANGED result))
    BY Zenon, <1>9 DEF FinalizeVault
  <2>3. result' \in Results /\ job' = job
    BY Zenon, <1>0, <2>2, FailWithFits, FinishedFits DEF ServerInv
  <2> QED
    BY Zenon, <2>1, <2>3, ServerKept
<1>10. CASE Unfinalize
  <2>1. object' \in Config
    BY Zenon, <1>10, Updates, GoneFits DEF Unfinalize, ServerInv
  <2> QED
    BY Zenon, <1>10, <2>1, RestFits DEF Unfinalize, ServerInv, inbox
<1>11. CASE Record
  <2>1. object' \in Config
    BY Zenon, <1>11, Updates, PatchedFits DEF Record, ServerInv
  <2> QED
    BY Zenon, <1>11, <2>1, RestFits DEF Record, ServerInv
<1>12. CASE PatchFails \/ Crash
  <2>1. UNCHANGED <<object, intent>> /\ cache' \in {object, cache} /\ AtRest
    BY Zenon, <1>12 DEF PatchFails, Crash, server
  <2> QED
    BY Zenon, <2>1, RestFits DEF ServerInv
<1>13. CASE Deliver
  BY Zenon, <1>13 DEF Deliver, ServerInv, server, workerVars
<1>14. CASE Specify
  <2>1. PICK i \in Intents[Len(intent) + 1] : intent' = Append(intent, i)
    BY Zenon, <1>14 DEF Specify
  <2>2. intent \in Seq(Declarations) /\ Len(intent) < MaxGen
    BY Zenon, <1>14 DEF Specify, ServerInv
  <2>3. Len(intent) \in Nat /\ Len(intent) + 1 \in 1..MaxGen /\ Len(intent) + 1 \in 0..MaxGen
    BY SMTT(30), <2>2, Numbers, LenProperties
  <2>4. Intents[Len(intent) + 1] \in SUBSET Declarations
    <3>1. Intents \in Seq(SUBSET Declarations)
      BY Zenon, OperatorAssumption DEF Declarations
    <3>2. Len(intent) + 1 \in 1..Len(Intents)
      BY Zenon, <2>3 DEF MaxGen
    <3> QED
      BY Zenon, <3>1, <3>2, ElementOfSeq
  <2>5. intent' \in Seq(Declarations) /\ Len(intent') = Len(intent) + 1
    BY SMTT(30), <2>1, <2>2, <2>4, AppendProperties
  <2>6. \A g \in DOMAIN intent' : intent'[g] \in Intents[g]
    BY SMTT(30), <2>1, <2>2, <2>3, <2>5, AppendProperties DEF ServerInv
  <2>7. Len(intent') <= MaxGen
    BY SMTT(30), <2>3, <2>5, Numbers
  <2>8. object' \in Config
    BY Zenon, <1>14, <2>3, Updates DEF Specify, ServerInv
  <2> QED
    BY Zenon, <1>14, <2>5, <2>6, <2>7, <2>8 DEF Specify, ServerInv, inbox, workerVars
<1>15. CASE DeleteObject
  <2>1. object' \in Config
    BY Zenon, <1>15, Updates, GoneFits DEF DeleteObject, ServerInv
  <2> QED
    BY Zenon, <1>15, <2>1 DEF DeleteObject, ServerInv, inbox, workerVars
<1>16. CASE UNCHANGED <<server, cache, workerVars>>
  BY Zenon, <1>16 DEF ServerInv, server, workerVars
<1>17. ASSUME NEW o \in Obj, Meddle(o) \/ Repair(o)
       PROVE  ServerInv'
  BY Zenon, <1>16, <1>17 DEF Meddle, Repair, inbox
<1>18. ASSUME NEW s \in Sources, Lose(s) \/ Supply(s)
       PROVE  ServerInv'
  BY Zenon, <1>16, <1>18 DEF Lose, Supply, inbox
<1>19. CASE TimerFires \/ UNCHANGED vars
  BY Zenon, <1>16, <1>19 DEF TimerFires, vars, inbox
<1> QED
  BY ZenonT(30), <1>1, <1>2, <1>3, <1>4, <1>5, <1>6, <1>7, <1>8, <1>9, <1>10, <1>11, <1>12, <1>13,
     <1>14, <1>15, <1>17, <1>18, <1>19 DEF Next, Worker, Environment

(* What an update leaves alone. *)
LEMMA UpdateFields ==
  ASSUME NEW c \in Config
  PROVE  /\ \A b \in BOOLEAN : LET d == [c EXCEPT !.finalizer = b]
                                IN  /\ d.finalizer = b /\ d.exists = c.exists
                                    /\ d.deleted = c.deleted /\ d.gen = c.gen
         /\ LET d == [c EXCEPT !.deleted = TRUE]
            IN  d.deleted /\ d.exists = c.exists /\ d.finalizer = c.finalizer /\ d.gen = c.gen
         /\ \A st : LET d == [c EXCEPT !.status = st]
                    IN  /\ d.deleted = c.deleted /\ d.exists = c.exists
                        /\ d.finalizer = c.finalizer /\ d.gen = c.gen
         /\ \A n : LET d == [c EXCEPT !.exists = TRUE, !.gen = n]
                   IN  /\ d.exists /\ d.gen = n
                       /\ d.deleted = c.deleted /\ d.finalizer = c.finalizer
         /\ ~Gone.exists /\ ~Gone.deleted /\ ~Gone.finalizer /\ Gone.gen = 0
<1>1. \A b \in BOOLEAN : LET d == [c EXCEPT !.finalizer = b]
                         IN  /\ d.finalizer = b /\ d.exists = c.exists
                             /\ d.deleted = c.deleted /\ d.gen = c.gen
  BY Zenon DEF Config
<1>2. LET d == [c EXCEPT !.deleted = TRUE]
      IN  d.deleted /\ d.exists = c.exists /\ d.finalizer = c.finalizer /\ d.gen = c.gen
  BY Zenon DEF Config
<1>3. \A st : LET d == [c EXCEPT !.status = st]
             IN  /\ d.deleted = c.deleted /\ d.exists = c.exists
                 /\ d.finalizer = c.finalizer /\ d.gen = c.gen
  BY Zenon DEF Config
<1>4. \A n : LET d == [c EXCEPT !.exists = TRUE, !.gen = n]
            IN  /\ d.exists /\ d.gen = n
                /\ d.deleted = c.deleted /\ d.finalizer = c.finalizer
  BY Zenon DEF Config
<1>5. ~Gone.exists /\ ~Gone.deleted /\ ~Gone.finalizer /\ Gone.gen = 0
  BY Zenon DEF Gone
<1> QED
  BY Zenon, <1>1, <1>2, <1>3, <1>4, <1>5

(* The order of the worker's steps. *)
Begins ==
  /\ pc = "idle" /\ job' = cache /\ cache.exists /\ UNCHANGED <<object, cache, intent, work, left, seen>>
  /\ cache.deleted => cache.finalizer /\ pc' = "finalize"
  /\ ~cache.deleted => \/ pc' = "record" /\ result'.keycloak = "invalid"
                       \/ pc' = "addFinalizer"
                       \/ pc' = "login" /\ cache.finalizer /\ intent[cache.gen] # Malformed
Proceeds ==
  /\ UNCHANGED <<object, cache, intent, job>>
  /\ \/ pc \in Making /\ pc' \in Making \cup {"record"}
     \/ pc \in Cleaning /\ pc' \in Cleaning \cup {"record"}

LEMMA Flow ==
  ASSUME WorkInv, [Next]_vars
  PROVE  AtRest \/ UNCHANGED <<pc, job>> \/ Begins \/ Proceeds
<1>0. pc \in Staged => pc \in Making \/ pc \in Cleaning
  BY Zenon DEF Staged, Making, Cleaning
<1>01. work # <<>> => pc \in Making \/ pc \in Cleaning
  BY Zenon, <1>0 DEF WorkInv
<1>02. ASSUME NEW v, FailWith(v), UNCHANGED <<server, inbox>>, pc \in Making \/ pc \in Cleaning
       PROVE  Proceeds
  BY Zenon, <1>02 DEF FailWith, Conclude, Proceeds, server, inbox
<1>1. CASE Start
  <2>1. CASE ~(~cache.exists \/ (cache.deleted /\ ~cache.finalizer))
    <3>1. /\ pc = "idle" /\ job' = cache /\ UNCHANGED <<object, cache, intent, work, left, seen>>
          /\ pc' = IF cache.deleted THEN "finalize"
                   ELSE IF intent[cache.gen] = Malformed THEN "record"
                   ELSE IF ~cache.finalizer THEN "addFinalizer" ELSE "login"
          /\ result' = IF ~cache.deleted /\ intent[cache.gen] = Malformed
                       THEN [keycloak |-> "invalid", vault |-> "invalid"] ELSE NoResult
      BY Zenon, <1>1, <2>1 DEF Start, server
    <3>2. [keycloak |-> "invalid", vault |-> "invalid"].keycloak = "invalid"
      BY Zenon
    <3> QED
      BY Zenon, <2>1, <3>1, <3>2 DEF Begins
  <2> QED
    BY Zenon, <1>1, <2>1 DEF Start
<1>2. CASE AddFinalizer \/ Unfinalize \/ Record \/ PatchFails \/ Crash
  BY Zenon, <1>2 DEF AddFinalizer, Unfinalize, Record, PatchFails, Crash
<1>3. CASE Login
  BY Zenon, <1>3 DEF Login, Enter, Proceeds, Making, server, inbox
<1>4. CASE LoginFails
  BY Zenon, <1>4, <1>02 DEF LoginFails, Making
<1>5. CASE ReadToken
  <2>1. CASE Enter("vault", Stages("ensure", VaultEnsure) \o Stages("prune", VaultPrune)) /\ job' = job
    BY Zenon, <1>5, <2>1 DEF ReadToken, Enter, Proceeds, Making, server, inbox
  <2> QED
    BY Zenon, <1>5, <1>02, <2>1 DEF ReadToken, Making
<1>6. ASSUME NEW o \in Obj, Look(o)
      PROVE  UNCHANGED <<pc, job>> \/ Proceeds
  BY Zenon, <1>6, <1>01, <1>02 DEF Look, Writing
<1>7. CASE Write \/ WriteFails
  BY Zenon, <1>7, <1>01, <1>02 DEF Write, WriteFails, Writing
<1>9. ASSUME NEW o \in Obj, Delete(o) \/ DeleteFails(o)
      PROVE  UNCHANGED <<pc, job>> \/ Proceeds
  BY Zenon, <1>9, <1>01, <1>02 DEF Delete, DeleteFails, Pruning, AfterDelete
<1>10. CASE Advance
  <2>1. CASE Finished /\ Remaining = <<>> /\ ~(pc = "keycloak" /\ result.keycloak # "ready")
    <3>1. UNCHANGED <<object, cache, intent, job>> /\ work # <<>>
      BY Zenon, <1>10, <2>1 DEF Advance, server, inbox
    <3>2. pc \in Staged
      BY Zenon, <3>1 DEF WorkInv
    <3> QED
      BY Zenon, <2>1, <3>1, <3>2 DEF Finished, Proceeds, Staged, Making, Cleaning
  <2> QED
    BY Zenon, <1>10, <1>01, <1>02, <2>1 DEF Advance
<1>11. CASE ListFails
  BY Zenon, <1>11, <1>01, <1>02 DEF ListFails
<1>12. ASSUME NEW ca, NEW credentials, FinalizeKeycloak(ca, credentials)
       PROVE  Proceeds
  BY Zenon, <1>12 DEF FinalizeKeycloak, Enter, Proceeds, Cleaning, server, inbox
<1>13. ASSUME NEW token, FinalizeVault(token)
       PROVE  Proceeds
  <2>1. pc = "cleanToken" /\ UNCHANGED <<object, cache, intent>>
    BY Zenon, <1>13 DEF FinalizeVault, server, inbox
  <2>2. job' = job /\ pc' \in {"cleanVault", "unfinalize", "record"}
    BY Zenon, <1>13, <2>1 DEF FinalizeVault, Enter, Finished, FailWith, Conclude
  <2> QED
    BY Zenon, <2>1, <2>2 DEF Proceeds, Cleaning
<1>14. CASE Specify \/ DeleteObject \/ Deliver \/ TimerFires \/ UNCHANGED vars
  BY Zenon, <1>14 DEF Specify, DeleteObject, Deliver, TimerFires, vars, workerVars
<1>17. ASSUME NEW o \in Obj, Meddle(o) \/ Repair(o)
       PROVE  UNCHANGED <<pc, job>>
  BY Zenon, <1>17 DEF Meddle, Repair, workerVars
<1>18. ASSUME NEW s \in Sources, Lose(s) \/ Supply(s)
       PROVE  UNCHANGED <<pc, job>>
  BY Zenon, <1>18 DEF Lose, Supply, workerVars
<1> QED
  BY ZenonT(30), <1>1, <1>2, <1>3, <1>4, <1>5, <1>6, <1>7, <1>9, <1>10, <1>11, <1>12, <1>13,
     <1>14, <1>17, <1>18 DEF Next, Worker, Environment

(* The steps that meet the API server or the informer. *)
LEMMA Talks ==
  ASSUME [Next]_vars
  PROVE  \/ UNCHANGED <<object, cache, intent>>
         \/ AddFinalizer \/ Unfinalize \/ Record \/ Crash \/ Deliver \/ Specify \/ DeleteObject
<1>1. CASE Start \/ Login \/ LoginFails \/ ReadToken \/ Write \/ WriteFails
  BY Zenon, <1>1 DEF Start, Login, LoginFails, ReadToken, Write, WriteFails, server, inbox
<1>2. CASE Advance \/ ListFails \/ PatchFails \/ TimerFires \/ UNCHANGED vars
  BY Zenon, <1>2 DEF Advance, ListFails, PatchFails, TimerFires, vars, server, inbox
<1>3. CASE \E o \in Obj : Look(o) \/ Delete(o) \/ DeleteFails(o) \/ Meddle(o) \/ Repair(o)
  BY Zenon, <1>3 DEF Look, Delete, DeleteFails, Meddle, Repair, server, inbox
<1>4. CASE \E ca, credentials : FinalizeKeycloak(ca, credentials)
  BY Zenon, <1>4 DEF FinalizeKeycloak, server, inbox
<1>5. CASE \E t : FinalizeVault(t)
  BY Zenon, <1>5 DEF FinalizeVault, server, inbox
<1>6. CASE \E x \in Sources : Lose(x) \/ Supply(x)
  BY Zenon, <1>6 DEF Lose, Supply, server, inbox
<1> QED
  BY ZenonT(30), <1>1, <1>2, <1>3, <1>4, <1>5, <1>6 DEF Next, Worker, Environment

(* What they do to the configuration. *)
LEMMA ObjectUpdates ==
  ASSUME ServerInv
  PROVE  /\ AddFinalizer => \/ object' = object
                            \/ /\ object'.exists = object.exists /\ object'.finalizer = object.exists
                               /\ object'.deleted = object.deleted /\ object'.gen = object.gen
         /\ Record => /\ object'.exists = object.exists /\ object'.finalizer = object.finalizer
                      /\ object'.deleted = object.deleted /\ object'.gen = object.gen
         /\ Specify => /\ object'.exists /\ object'.finalizer = object.finalizer
                       /\ object'.deleted = object.deleted /\ object'.gen = Len(intent) + 1
<1>1. object \in Config /\ object.exists \in BOOLEAN
  BY Zenon DEF ServerInv, Config
<1>2. ASSUME AddFinalizer
      PROVE  \/ object' = object
             \/ /\ object'.exists = object.exists /\ object'.finalizer = object.exists
                /\ object'.deleted = object.deleted /\ object'.gen = object.gen
  <2> DEFINE d == [object EXCEPT !.finalizer = object.exists]
  <2>1. /\ d.finalizer = object.exists /\ d.exists = object.exists
        /\ d.deleted = object.deleted /\ d.gen = object.gen
    BY Zenon, <1>1 DEF Config
  <2>2. object' = object \/ object' = d
    BY Zenon, <1>2 DEF AddFinalizer
  <2> HIDE DEF d
  <2> QED
    BY Zenon, <2>1, <2>2
<1>3. ASSUME Record
      PROVE  /\ object'.exists = object.exists /\ object'.finalizer = object.finalizer
             /\ object'.deleted = object.deleted /\ object'.gen = object.gen
  <2> DEFINE d == [object EXCEPT !.status = Patched]
  <2>1. /\ d.deleted = object.deleted /\ d.exists = object.exists
        /\ d.finalizer = object.finalizer /\ d.gen = object.gen
    BY Zenon, <1>1 DEF Config
  <2>2. object' = object \/ object' = d
    BY Zenon, <1>3 DEF Record
  <2> HIDE DEF d
  <2> QED
    BY Zenon, <2>1, <2>2
<1>4. ASSUME Specify
      PROVE  /\ object'.exists /\ object'.finalizer = object.finalizer
             /\ object'.deleted = object.deleted /\ object'.gen = Len(intent) + 1
  <2> DEFINE d == [object EXCEPT !.exists = TRUE, !.gen = Len(intent) + 1]
  <2>1. /\ d.exists /\ d.gen = Len(intent) + 1
        /\ d.deleted = object.deleted /\ d.finalizer = object.finalizer
    BY Zenon, <1>1 DEF Config
  <2>2. object' = d
    BY Zenon, <1>4 DEF Specify
  <2> HIDE DEF d
  <2> QED
    BY Zenon, <2>1, <2>2
<1> QED
  BY Zenon, <1>2, <1>3, <1>4

(* A copy of the configuration is of a generation that was specified. *)
Dated(c) == c.gen \in 0..Len(intent) /\ (c.exists => c.gen # 0)
GenInv ==
  /\ Dated(object) /\ Dated(cache) /\ Dated(job)
  /\ pc # "idle" => job.exists
  /\ pc \in Making => intent[job.gen] # Malformed

LEMMA GenStep ==
  ASSUME WorkInv, ServerInv, GenInv, [Next]_vars
  PROVE  GenInv'
<1>0. ~Gone.exists /\ Gone.gen = 0 /\ Len(intent) \in Nat /\ 0 \in 0..Len(intent)
  <2>1. Len(intent) \in Nat
    BY Zenon, LenProperties DEF ServerInv
  <2>2. 0 \in 0..Len(intent)
    BY SMTT(30), <2>1
  <2> QED
    BY Zenon, <2>1, <2>2, GoneFits, UpdateFields
<1>01. Dated(Gone)
  BY Zenon, <1>0 DEF Dated
<1>02. "idle" \notin Making /\ AtRest => pc' = "idle" /\ job' = Gone
  BY Zenon DEF Making, AtRest
<1>1. CASE UNCHANGED <<object, cache, intent>>
  <2>0. \A c : Dated(c)' = Dated(c')
    BY Zenon, <1>1 DEF Dated
  <2>1. CASE AtRest
    BY Zenon, <1>1, <1>01, <1>02, <2>1 DEF GenInv, Dated, Making, AtRest
  <2>2. CASE UNCHANGED <<pc, job>>
    BY Zenon, <1>1, <2>2 DEF GenInv, Dated
  <2>3. CASE Begins
    <3>1. pc' \in Making => pc' = "login"
      BY Zenon, <2>3 DEF Begins, Making
    <3> QED
      BY Zenon, <1>1, <2>3, <3>1 DEF Begins, GenInv, Dated
  <2>4. CASE Proceeds
    <3>1. pc' \in Making => pc \in Making
      BY Zenon, <2>4 DEF Proceeds, Making, Cleaning
    <3>2. pc # "idle"
      BY Zenon, <2>4 DEF Proceeds, Making, Cleaning
    <3> QED
      BY Zenon, <1>1, <2>4, <3>1, <3>2 DEF Proceeds, GenInv, Dated
  <2> QED
    BY Zenon, <2>1, <2>2, <2>3, <2>4, Flow
<1>2. CASE AddFinalizer
  <2>1. object'.exists = object.exists /\ object'.gen = object.gen
    BY Zenon, <1>2, ObjectUpdates
  <2>2. AtRest /\ UNCHANGED <<intent, cache>>
    BY Zenon, <1>2 DEF AddFinalizer
  <2> QED
    BY Zenon, <1>01, <1>02, <2>1, <2>2 DEF GenInv, Dated, Making, AtRest
<1>3. CASE Unfinalize
  <2>1. object' = Gone \/ (object'.exists = object.exists /\ object'.gen = object.gen)
    <3>1. object \in Config /\ FALSE \in BOOLEAN
      BY Zenon DEF ServerInv
    <3> QED
      BY Zenon, <1>3, <3>1, UpdateFields DEF Unfinalize
  <2>2. AtRest /\ UNCHANGED <<intent, cache>>
    BY Zenon, <1>3 DEF Unfinalize, inbox
  <2> QED
    BY Zenon, <1>01, <1>02, <2>1, <2>2 DEF GenInv, Dated, Making, AtRest
<1>4. CASE Record
  <2>1. object'.exists = object.exists /\ object'.gen = object.gen
    BY Zenon, <1>4, ObjectUpdates
  <2>2. AtRest /\ UNCHANGED <<intent, cache>>
    BY Zenon, <1>4 DEF Record
  <2> QED
    BY Zenon, <1>01, <1>02, <2>1, <2>2 DEF GenInv, Dated, Making, AtRest
<1>5. CASE Crash
  <2>1. AtRest /\ UNCHANGED <<intent, object>> /\ cache' = object
    BY Zenon, <1>5 DEF Crash, server
  <2> QED
    BY Zenon, <1>01, <1>02, <2>1 DEF GenInv, Dated, Making, AtRest
<1>6. CASE Deliver
  <2>1. UNCHANGED <<intent, object, pc, job>> /\ cache' = object
    BY Zenon, <1>6 DEF Deliver, server, workerVars
  <2> QED
    BY Zenon, <2>1 DEF GenInv, Dated
<1>7. CASE Specify
  <2>1. PICK i \in Intents[Len(intent) + 1] : intent' = Append(intent, i)
    BY Zenon, <1>7 DEF Specify
  <2>2. UNCHANGED <<cache, pc, job>> /\ AtServer
    BY Zenon, <1>7 DEF Specify, inbox, workerVars
  <2>3. object'.exists /\ object'.gen = Len(intent) + 1
    BY Zenon, <1>7, ObjectUpdates
  <2>4. Len(intent') = Len(intent) + 1
    BY SMTT(30), <2>1 DEF ServerInv
  <2>5. \A n \in 0..Len(intent) : n \in 0..Len(intent')
    BY SMTT(30), <1>0, <2>4
  <2>6. object'.gen \in 0..Len(intent') /\ object'.gen # 0
    BY SMTT(30), <1>0, <2>3, <2>4
  <2>7. pc \notin Making
    BY Zenon, <2>2 DEF AtServer, Making
  <2> QED
    BY Zenon, <2>2, <2>5, <2>6, <2>7 DEF GenInv, Dated
<1>8. CASE DeleteObject
  <2>1. object' = Gone \/ (object'.exists = object.exists /\ object'.gen = object.gen)
    <3>1. object \in Config
      BY Zenon DEF ServerInv
    <3> QED
      BY Zenon, <1>8, <3>1, UpdateFields DEF DeleteObject
  <2>2. UNCHANGED <<intent, cache, pc, job>>
    BY Zenon, <1>8 DEF DeleteObject, inbox, workerVars
  <2> QED
    BY Zenon, <1>01, <2>1, <2>2 DEF GenInv, Dated
<1> QED
  BY Zenon, <1>1, <1>2, <1>3, <1>4, <1>5, <1>6, <1>7, <1>8, Talks

(* The finalizer is there while the worker makes objects, and the deletion  *)
(* is decided while it removes them.                                        *)
FinInv ==
  /\ object.finalizer => object.exists
  /\ object.deleted => object.exists /\ object.finalizer
  /\ cache.deleted => cache.exists /\ cache.finalizer
  /\ cache.finalizer /\ ~cache.deleted => object.finalizer
  /\ cache.deleted => object.deleted \/ ~object.finalizer
  /\ pc = "addFinalizer" /\ cache.deleted => object.deleted
  /\ pc \in Cleaning => /\ job.deleted /\ (object.deleted \/ ~object.finalizer)
                        /\ ~(cache.finalizer /\ ~cache.deleted)
  /\ pc \in Making => object.finalizer /\ ~job.deleted

LEMMA FinStep ==
  ASSUME WorkInv, ServerInv, FinInv, [Next]_vars
  PROVE  FinInv'
<1>0. ~Gone.exists /\ ~Gone.deleted /\ ~Gone.finalizer
  BY Zenon, GoneFits, UpdateFields
<1>01. "idle" \notin Making \cup Cleaning /\ AtRest => pc' = "idle"
  BY Zenon DEF Making, Cleaning, AtRest
<1>02. "idle" # "addFinalizer" /\ "idle" \notin Making /\ "idle" \notin Cleaning
  BY Zenon DEF Making, Cleaning
<1>03. AtRest => pc' # "addFinalizer" /\ pc' \notin Making /\ pc' \notin Cleaning
  BY Zenon, <1>02 DEF AtRest
<1>04. AtServer => pc \notin Making /\ (pc \in Cleaning => pc = "unfinalize")
  BY Zenon DEF AtServer, Making, Cleaning
<1>05. object \in Config /\ object.exists \in BOOLEAN /\ FALSE \in BOOLEAN
  BY Zenon DEF ServerInv, Config
<1>1. CASE UNCHANGED <<object, cache, intent>>
  <2>1. CASE AtRest
    BY Zenon, <1>1, <1>03, <2>1 DEF FinInv
  <2>2. CASE UNCHANGED <<pc, job>>
    BY Zenon, <1>1, <2>2 DEF FinInv
  <2>3. CASE Begins
    <3>1. /\ pc' \in Making => pc' = "login"
          /\ pc' \in Cleaning => pc' = "finalize"
      BY Zenon, <2>3 DEF Begins, Making, Cleaning
    <3>2. pc' = "addFinalizer" => ~cache.deleted
      BY Zenon, <2>3 DEF Begins
    <3>3. pc' = "login" => cache.finalizer /\ ~cache.deleted
      BY Zenon, <2>3 DEF Begins
    <3>4. pc' = "finalize" => cache.deleted
      BY Zenon, <2>3 DEF Begins
    <3>5. job' = cache
      BY Zenon, <2>3 DEF Begins
    <3> QED
      BY Zenon, <1>1, <3>1, <3>2, <3>3, <3>4, <3>5 DEF FinInv
  <2>4. CASE Proceeds
    <3>1. /\ pc' \in Making => pc \in Making
          /\ pc' \in Cleaning => pc \in Cleaning
          /\ pc' # "addFinalizer"
      BY Zenon, <2>4 DEF Proceeds, Making, Cleaning
    <3> QED
      BY Zenon, <1>1, <2>4, <3>1 DEF Proceeds, FinInv
  <2> QED
    BY Zenon, <2>1, <2>2, <2>3, <2>4, Flow
<1>2. CASE AddFinalizer
  <2>1. \/ object' = object
        \/ /\ object'.exists = object.exists /\ object'.finalizer = object.exists
           /\ object'.deleted = object.deleted
    BY Zenon, <1>2, ObjectUpdates
  <2>2. AtRest /\ UNCHANGED cache /\ pc = "addFinalizer"
    BY Zenon, <1>2 DEF AddFinalizer
  <2> QED
    BY Zenon, <1>03, <2>1, <2>2 DEF FinInv
<1>3. CASE Unfinalize
  <2>1. \/ object' = Gone
        \/ /\ object'.exists = object.exists /\ ~object'.finalizer
           /\ ~object.deleted /\ object'.deleted = object.deleted
    BY Zenon, <1>3, <1>05, UpdateFields DEF Unfinalize
  <2>2. AtRest /\ UNCHANGED cache /\ pc \in Cleaning
    BY Zenon, <1>3 DEF Unfinalize, inbox, Cleaning
  <2> QED
    BY Zenon, <1>0, <1>03, <2>1, <2>2 DEF FinInv
<1>4. CASE Record
  <2>1. /\ object'.exists = object.exists /\ object'.finalizer = object.finalizer
        /\ object'.deleted = object.deleted
    BY Zenon, <1>4, ObjectUpdates
  <2>2. AtRest /\ UNCHANGED cache
    BY Zenon, <1>4 DEF Record
  <2> QED
    BY Zenon, <1>03, <2>1, <2>2 DEF FinInv
<1>5. CASE Crash
  <2>1. AtRest /\ UNCHANGED object /\ cache' = object
    BY Zenon, <1>5 DEF Crash, server
  <2> QED
    BY Zenon, <1>03, <2>1 DEF FinInv
<1>6. CASE Deliver
  <2>1. UNCHANGED <<object, pc, job>> /\ cache' = object /\ AtServer
    BY Zenon, <1>6 DEF Deliver, server, workerVars
  <2> QED
    BY Zenon, <1>04, <2>1 DEF FinInv
<1>7. CASE Specify
  <2>1. UNCHANGED <<cache, pc, job>> /\ AtServer /\ (object.exists => ~object.deleted)
    BY Zenon, <1>7 DEF Specify, inbox, workerVars
  <2>2. object'.exists /\ object'.finalizer = object.finalizer /\ object'.deleted = object.deleted
    BY Zenon, <1>7, ObjectUpdates
  <2> QED
    BY Zenon, <1>04, <2>1, <2>2 DEF FinInv
<1>8. CASE DeleteObject
  <2>1. \/ object' = Gone /\ ~object.finalizer
        \/ /\ object.finalizer /\ object'.deleted
           /\ object'.exists = object.exists /\ object'.finalizer = object.finalizer
    BY Zenon, <1>8, <1>05, UpdateFields DEF DeleteObject
  <2>2. UNCHANGED <<cache, pc, job>> /\ AtServer
    BY Zenon, <1>8 DEF DeleteObject, inbox, workerVars
  <2>3. pc = "addFinalizer" /\ cache.deleted => object.finalizer
    BY Zenon DEF FinInv
  <2> QED
    BY Zenon, <1>0, <1>04, <2>1, <2>2, <2>3 DEF FinInv
<1> QED
  BY Zenon, <1>1, <1>2, <1>3, <1>4, <1>5, <1>6, <1>7, <1>8, Talks

-----------------------------------------------------------------------------
(* The objects of Keycloak and Vault *)

(* The providers' objects. *)
Marks == {Absent, Foreign, Partial} \cup Gen
StoreInv ==
  /\ store \in [Obj -> Marks]
  /\ \A o \in nested : o \in Obj /\ Owned(o) /\ Kind[o] \in {"scope", "client", "mount"}
  /\ session \in {Bootstrap} \cup Of("user")
  /\ (\E r \in Of("role") : Owned(r)) => \E m \in Of("mount") : Owned(m)

LEMMA MarkFacts ==
  /\ \A m \in Marks : m \in Int /\ (m >= Partial <=> m \notin {Absent, Foreign})
  /\ \A g \in Gen : g \in Marks /\ g >= Partial
  /\ {Absent, Foreign, Partial} \subseteq Marks /\ Partial >= Partial
  /\ ~(Absent >= Partial) /\ ~(Foreign >= Partial) /\ Absent < Partial
  /\ \A m \in Marks : m < Partial <=> ~(m >= Partial)
BY SMTT(30), Numbers DEF Marks, Gen, Absent, Foreign, Partial

(* What a removal takes with it. *)
LEMMA WithoutEffect ==
  ASSUME StoreInv, NEW o \in Obj
  PROVE  /\ Without(o) \in [Obj -> Marks] /\ Without(o)[o] = Absent
         /\ \A p \in Obj : Without(o)[p] >= Partial => Owned(p)
         /\ \A p \in Obj : p # o /\ Without(o)[p] # store[p]
                           => \/ Kind[o] = "mount" /\ Kind[p] \in {"role", "alias"}
                              \/ Kind[o] = "extgroup" /\ Kind[p] = "alias"
         /\ \A p \in Of("role") : Kind[o] = "mount" => Without(o)[p] = Absent
         /\ \A p \in Obj : store[p] = Foreign => Without(o)[p] \in {Foreign, Absent}
<1>0. store \in [Obj -> Marks] /\ Absent \in Marks /\ Partial \in Marks /\ ~(Absent >= Partial)
  BY Zenon, MarkFacts DEF StoreInv
<1>1. ASSUME NEW p \in Obj
      PROVE  /\ Without(o)[p] \in {Absent, Partial, store[p]}
             /\ p = o => Without(o)[p] = Absent
             /\ Without(o)[p] = Partial => Owned(p) \/ Without(o)[p] = store[p]
             /\ Kind[o] = "mount" /\ Kind[p] = "role" => Without(o)[p] = Absent
             /\ store[p] = Foreign => Without(o)[p] \in {Foreign, Absent}
  <2>1. Without(o)[p] = CASE p = o                                                      -> Absent
                          [] Kind[o] = "mount" /\ Kind[p] = "role"                      -> Absent
                          [] Kind[o] = "mount" /\ Kind[p] = "alias" /\ Owned(p)         -> Partial
                          [] Kind[o] = "extgroup" /\ Kind[p] = "alias" /\ Owned(p)      -> Absent
                          [] OTHER                                                      -> store[p]
    BY Zenon DEF Without
  <2>2. store[p] = Foreign => ~Owned(p)
    BY Zenon, MarkFacts DEF Owned
  <2>3. Absent # Partial
    BY SMTT(30) DEF Absent, Partial
  <2> QED
    BY ZenonT(60), <2>1, <2>2, <2>3
<1>2. Without(o) \in [Obj -> Marks]
  <2>1. \A p \in Obj : Without(o)[p] \in Marks
    BY Zenon, <1>0, <1>1
  <2>2. Without(o) = [p \in Obj |-> Without(o)[p]]
    BY Zenon DEF Without
  <2> QED
    BY Zenon, <2>1, <2>2
<1>3. \A p \in Obj : Without(o)[p] >= Partial => Owned(p)
  BY Zenon, <1>0, <1>1 DEF Owned
<1>4. \A p \in Obj : p # o /\ Without(o)[p] # store[p]
                     => \/ Kind[o] = "mount" /\ Kind[p] \in {"role", "alias"}
                        \/ Kind[o] = "extgroup" /\ Kind[p] = "alias"
  BY Zenon DEF Without
<1>5. Without(o)[o] = Absent /\ \A p \in Obj : store[p] = Foreign => Without(o)[p] \in {Foreign, Absent}
  BY Zenon, <1>1
<1>6. \A p \in Of("role") : Kind[o] = "mount" => Without(o)[p] = Absent
  BY Zenon, <1>1 DEF Of
<1> QED
  BY Zenon, <1>2, <1>3, <1>4, <1>5, <1>6

(* What may happen to the store. *)
Written ==
  /\ Writing /\ seen # Unseen /\ Accepted(seen.name, seen.was)
  /\ \E g \in {Partial, job.gen} : store' = [store EXCEPT ![seen.name] = g]
Removed ==
  \/ \E o \in Obj : store' = Without(o)
  \/ \E o \in Obj : store' = [store EXCEPT ![o] = Absent] /\ (Kind[o] = "role" \/ store[o] = Foreign)
  \/ \E o \in Obj : store' = [store EXCEPT ![o] = Foreign] /\ store[o] = Absent

LEMMA Moves ==
  ASSUME [Next]_vars
  PROVE  UNCHANGED store \/ Written \/ Removed
<1>1. CASE Start \/ AddFinalizer \/ Unfinalize \/ Record \/ PatchFails \/ Crash \/ Deliver \/ TimerFires
  BY Zenon, <1>1 DEF Start, AddFinalizer, Unfinalize, Record, PatchFails, Crash, Deliver, TimerFires,
     providers
<1>2. CASE Login \/ LoginFails \/ ReadToken \/ Advance \/ ListFails \/ Specify \/ DeleteObject \/ UNCHANGED vars
  BY Zenon, <1>2 DEF Login, LoginFails, ReadToken, Advance, ListFails, Specify, DeleteObject, vars, providers
<1>3. CASE \E ca, credentials : FinalizeKeycloak(ca, credentials)
  BY Zenon, <1>3 DEF FinalizeKeycloak, providers
<1>4. CASE \E t : FinalizeVault(t)
  BY Zenon, <1>4 DEF FinalizeVault, providers
<1>5. CASE \E x \in Sources : Lose(x) \/ Supply(x)
  BY Zenon, <1>5 DEF Lose, Supply
<1>6. CASE Write \/ WriteFails
  BY Zenon, <1>6 DEF Write, WriteFails, Written
<1>7. ASSUME NEW o \in Obj, Look(o) \/ Delete(o)
      PROVE  UNCHANGED store \/ Removed
  BY Zenon, <1>7 DEF Look, Delete, Removed, providers
<1>8. ASSUME NEW o \in Obj, DeleteFails(o)
      PROVE  UNCHANGED store \/ Removed
  <2>1. ASSUME NEW p \in IF Kind[o] = "mount" THEN Of("role") ELSE {}, store' = [store EXCEPT ![p] = Absent]
        PROVE  Removed
    BY Zenon, <2>1 DEF Removed, Of
  <2>2. store' = Without(o) => Removed
    BY Zenon DEF Removed
  <2> QED
    BY Zenon, <1>8, <2>1, <2>2 DEF DeleteFails
<1>9. ASSUME NEW o \in Obj, Meddle(o) \/ Repair(o)
      PROVE  UNCHANGED store \/ Removed
  BY Zenon, <1>9 DEF Meddle, Repair, Removed
<1> QED
  BY ZenonT(30), <1>1, <1>2, <1>3, <1>4, <1>5, <1>6, <1>7, <1>8, <1>9 DEF Next, Worker, Environment

(* A removal marks nothing, and takes the roles with their mount. *)
LEMMA RemovedEffect ==
  ASSUME StoreInv, Removed
  PROVE  /\ store' \in [Obj -> Marks] /\ \A p \in Obj : Owned(p)' => Owned(p)
         /\ (\E r \in Of("role") : Owned(r)') => \E m \in Of("mount") : Owned(m)'
<1>0. store \in [Obj -> Marks] /\ Absent \in Marks /\ Foreign \in Marks
      /\ ~(Absent >= Partial) /\ ~(Foreign >= Partial)
  BY Zenon, MarkFacts DEF StoreInv
<1>1. ASSUME NEW o \in Obj, store' = Without(o)
      PROVE  /\ store' \in [Obj -> Marks] /\ \A p \in Obj : Owned(p)' => Owned(p)
             /\ (\E r \in Of("role") : Owned(r)') => \E m \in Of("mount") : Owned(m)'
  <2>1. store' \in [Obj -> Marks] /\ \A p \in Obj : Owned(p)' => Owned(p)
    BY Zenon, <1>1, WithoutEffect DEF Owned
  <2>2. ASSUME NEW r \in Of("role"), Owned(r)'
        PROVE  \E m \in Of("mount") : Owned(m)'
    <3>1. Kind[o] # "mount"
      BY Zenon, <1>0, <1>1, <2>2, WithoutEffect DEF Owned
    <3>2. Owned(r)
      BY Zenon, <2>1, <2>2 DEF Of
    <3>3. PICK m \in Of("mount") : Owned(m)
      BY Zenon, <3>2 DEF StoreInv
    <3>4. m \in Obj /\ Kind[m] = "mount"
      BY Zenon, <3>3 DEF Of
    <3>5. m # o /\ Kind[m] \notin {"role", "alias"}
      BY Zenon, <3>1, <3>4
    <3>6. Without(o)[m] = store[m]
      BY Zenon, <3>4, <3>5, WithoutEffect
    <3> QED
      BY Zenon, <1>1, <3>3, <3>6 DEF Owned
  <2> QED
    BY Zenon, <2>1, <2>2
<1>2. ASSUME NEW o \in Obj, NEW v \in {Absent, Foreign}, store' = [store EXCEPT ![o] = v],
             Kind[o] = "role" \/ ~Owned(o)
      PROVE  /\ store' \in [Obj -> Marks] /\ \A p \in Obj : Owned(p)' => Owned(p)
             /\ (\E r \in Of("role") : Owned(r)') => \E m \in Of("mount") : Owned(m)'
  <2>1. store' \in [Obj -> Marks]
    BY Zenon, <1>0, <1>2
  <2>2. store'[o] = v /\ \A p \in Obj \ {o} : store'[p] = store[p]
    BY Zenon, <1>0, <1>2
  <2>3. ~Owned(o)' /\ \A p \in Obj \ {o} : Owned(p)' <=> Owned(p)
    BY Zenon, <1>0, <2>2 DEF Owned
  <2>4. ASSUME NEW r \in Of("role"), Owned(r)'
        PROVE  \E m \in Of("mount") : Owned(m)'
    <3>1. Owned(r)
      BY Zenon, <2>3, <2>4 DEF Of
    <3>2. PICK m \in Of("mount") : Owned(m)
      BY Zenon, <3>1 DEF StoreInv
    <3>3. m # o /\ m \in Obj
      BY Zenon, <1>2, <3>2 DEF Of
    <3> QED
      BY Zenon, <2>3, <3>2, <3>3
  <2> QED
    BY Zenon, <2>1, <2>3, <2>4
<1>3. \A o \in Obj : store[o] \in {Absent, Foreign} => ~Owned(o)
  BY Zenon, <1>0 DEF Owned
<1> QED
  BY Zenon, <1>1, <1>2, <1>3 DEF Removed

(* The worker writes a declared object of the stage it is at. *)
LEMMA WritesDeclared ==
  ASSUME WorkInv, Writing, seen # Unseen
  PROVE  /\ seen.name \in left /\ seen.name \in Obj /\ seen.name \in Declared(job.gen)
         /\ pc = "keycloak" => Kind[seen.name] \in KeycloakKinds
         /\ pc = "vault" => Kind[seen.name] \in VaultKinds
<1>1. work # <<>> /\ work[1].op = "ensure" /\ seen.name \in left
  BY Zenon DEF WorkInv
<1>2. work[1] \in Fits(pc) /\ left \subseteq Of(work[1].kind) /\ left \subseteq Declared(job.gen)
  BY Zenon, <1>1 DEF WorkInv
<1> QED
  BY Zenon, <1>1, <1>2 DEF Fits, Of

LEMMA WriteNumber ==
  ASSUME ServerInv, GenInv, pc \in Making
  PROVE  /\ job.gen \in Gen /\ job.gen \in DOMAIN intent /\ Declared(job.gen) = intent[job.gen]
         /\ Complete(Declared(job.gen))
<1>1. job.gen \in 0..Len(intent) /\ job.gen # 0 /\ intent[job.gen] # Malformed
  BY Zenon DEF GenInv, Dated, Making
<1>2. intent \in Seq(Declarations) /\ Len(intent) \in Nat /\ Len(intent) <= MaxGen
  BY Zenon, LenProperties DEF ServerInv
<1>3. job.gen \in 1..Len(intent) /\ job.gen \in Gen
  BY SMTT(30), <1>1, <1>2, Numbers DEF Gen
<1>4. DOMAIN intent = 1..Len(intent)
  BY Zenon, <1>2, LenProperties
<1>5. Declared(job.gen) = intent[job.gen] /\ intent[job.gen] \in Intents[job.gen]
  BY Zenon, <1>1, <1>3, <1>4 DEF Declared, ServerInv
<1> QED
  BY Zenon, <1>1, <1>3, <1>4, <1>5, OperatorAssumption DEF Gen

(* A write marks one object, below its parents. *)
LEMMA WrittenEffect ==
  ASSUME WorkInv, ServerInv, GenInv, StoreInv, Written
  PROVE  /\ store' \in [Obj -> Marks] /\ seen.name \in Obj /\ store'[seen.name] >= Partial
         /\ \A p \in Obj \ {seen.name} : store'[p] = store[p]
         /\ \A p \in Obj : Owned(p) => Owned(p)'
         /\ (\E r \in Of("role") : Owned(r)') => \E m \in Of("mount") : Owned(m)'
<1>0. store \in [Obj -> Marks] /\ Partial \in Marks /\ Partial >= Partial
  BY Zenon, MarkFacts DEF StoreInv
<1>1. seen.name \in Obj /\ pc \in Making
  BY Zenon, WritesDeclared DEF Written, Writing, Making
<1>2. PICK g \in {Partial, job.gen} : store' = [store EXCEPT ![seen.name] = g]
  BY Zenon DEF Written
<1>3. g \in Marks /\ g >= Partial
  BY Zenon, <1>0, <1>1, <1>2, WriteNumber, MarkFacts
<1>4. store' \in [Obj -> Marks] /\ store'[seen.name] = g /\ \A p \in Obj \ {seen.name} : store'[p] = store[p]
  BY Zenon, <1>0, <1>1, <1>2, <1>3
<1>5. store'[seen.name] >= Partial /\ \A p \in Obj : Owned(p) => Owned(p)'
  BY Zenon, <1>3, <1>4 DEF Owned
<1>6. ASSUME NEW r \in Of("role"), Owned(r)'
      PROVE  \E m \in Of("mount") : Owned(m)'
  <2>1. CASE r = seen.name
    <3>1. Parents(r) = {"mount"}
      BY Zenon DEF Of, Parents
    <3>2. \E m \in Of("mount") : Owned(m)
      BY Zenon, <2>1, <3>1 DEF Written, Accepted
    <3> QED
      BY Zenon, <1>5, <3>2 DEF Of
  <2>2. CASE r # seen.name
    <3>1. Owned(r)
      BY Zenon, <1>4, <1>6, <2>2 DEF Owned, Of
    <3> QED
      BY Zenon, <1>5, <3>1 DEF StoreInv, Of
  <2> QED
    BY Zenon, <2>1, <2>2
<1> QED
  BY Zenon, <1>1, <1>4, <1>5, <1>6

(* The foreign children of an owned object. *)
NestedOK == \A o \in nested : o \in Obj /\ Owned(o) /\ Kind[o] \in {"scope", "client", "mount"}

LEMMA NestedStep ==
  ASSUME WorkInv, ServerInv, GenInv, StoreInv, [Next]_vars
  PROVE  NestedOK'
<1>0. NestedOK
  BY Zenon DEF StoreInv, NestedOK
<1>1. CASE UNCHANGED <<store, nested>>
  BY Zenon, <1>0, <1>1 DEF NestedOK, Owned
<1>2. CASE Start \/ AddFinalizer \/ Unfinalize \/ Record \/ PatchFails \/ Crash \/ Deliver \/ TimerFires
  BY Zenon, <1>1, <1>2 DEF Start, AddFinalizer, Unfinalize, Record, PatchFails, Crash, Deliver, TimerFires,
     providers
<1>3. CASE Login \/ LoginFails \/ ReadToken \/ Advance \/ ListFails \/ Specify \/ DeleteObject \/ UNCHANGED vars
  BY Zenon, <1>1, <1>3 DEF Login, LoginFails, ReadToken, Advance, ListFails, Specify, DeleteObject, vars,
     providers
<1>4. ASSUME NEW ca, NEW credentials, FinalizeKeycloak(ca, credentials)
      PROVE  NestedOK'
  BY Zenon, <1>1, <1>4 DEF FinalizeKeycloak, providers
<1>5. ASSUME NEW t, FinalizeVault(t)
      PROVE  NestedOK'
  BY Zenon, <1>1, <1>5 DEF FinalizeVault, providers
<1>6. ASSUME NEW x \in Sources, Lose(x) \/ Supply(x)
      PROVE  NestedOK'
  BY Zenon, <1>1, <1>6 DEF Lose, Supply
<1>7. CASE Write \/ WriteFails
  <2>1. UNCHANGED nested /\ (UNCHANGED store \/ Written)
    BY Zenon, <1>7 DEF Write, WriteFails, Written
  <2>2. CASE Written
    BY Zenon, <1>0, <2>1, <2>2, WrittenEffect DEF NestedOK
  <2> QED
    BY Zenon, <1>1, <2>1, <2>2
<1>8. ASSUME NEW o \in Obj, Look(o)
      PROVE  NestedOK'
  BY Zenon, <1>1, <1>8 DEF Look, providers
<1>9. ASSUME NEW o \in Obj, Delete(o) \/ DeleteFails(o)
      PROVE  NestedOK'
  <2>1. nested' = nested \ {p \in nested : store'[p] < Partial}
    BY Zenon, <1>9 DEF Delete, DeleteFails
  <2>2. UNCHANGED store \/ Removed
    <3>1. ~Written
      BY Zenon, <1>9 DEF Delete, DeleteFails, Pruning, Written, Writing
    <3> QED
      BY Zenon, <3>1, Moves
  <2>3. store' \in [Obj -> Marks]
    BY Zenon, <2>2, RemovedEffect DEF StoreInv
  <2>4. ASSUME NEW p \in nested'
        PROVE  p \in Obj /\ Owned(p)' /\ Kind[p] \in {"scope", "client", "mount"}
    <3>1. p \in nested /\ p \in Obj /\ ~(store'[p] < Partial) /\ Kind[p] \in {"scope", "client", "mount"}
      BY Zenon, <1>0, <2>1 DEF NestedOK
    <3>2. store'[p] \in Marks
      BY Zenon, <2>3, <3>1
    <3>3. store'[p] >= Partial
      BY Zenon, <3>1, <3>2, MarkFacts
    <3> QED
      BY Zenon, <3>1, <3>3 DEF Owned
  <2> QED
    BY Zenon, <2>4 DEF NestedOK
<1>10. ASSUME NEW o \in Obj, Meddle(o)
       PROVE  NestedOK'
  <2>1. CASE store' = Without(o) /\ nested' = nested \ {o}
    <3>1. ASSUME NEW p \in nested'
          PROVE  p \in Obj /\ Owned(p)' /\ Kind[p] \in {"scope", "client", "mount"}
      <4>1. p \in nested /\ p # o /\ p \in Obj /\ Owned(p) /\ Kind[p] \in {"scope", "client", "mount"}
        BY Zenon, <1>0, <2>1 DEF NestedOK
      <4>2. Kind[p] \notin {"role", "alias"} /\ Kind[p] # "alias"
        BY Zenon, <4>1
      <4>3. store'[p] = store[p]
        BY Zenon, <2>1, <4>1, <4>2, WithoutEffect
      <4> QED
        BY Zenon, <4>1, <4>3 DEF Owned
    <3> QED
      BY Zenon, <3>1 DEF NestedOK
  <2>2. CASE store[o] = Absent /\ store' = [store EXCEPT ![o] = Foreign] /\ UNCHANGED nested
    <3>1. store \in [Obj -> Marks] /\ ~Owned(o)
      BY Zenon, <2>2, MarkFacts DEF StoreInv, Owned
    <3>2. \A p \in Obj \ {o} : store'[p] = store[p]
      BY Zenon, <2>2, <3>1
    <3>3. \A p \in nested : p # o
      BY Zenon, <1>0, <3>1 DEF NestedOK
    <3> QED
      BY Zenon, <1>0, <2>2, <3>2, <3>3 DEF NestedOK, Owned
  <2>3. CASE Owned(o) /\ Kind[o] \in {"scope", "client", "mount"} /\ nested' = nested \cup {o} /\ UNCHANGED store
    BY Zenon, <1>0, <2>3 DEF NestedOK, Owned
  <2> QED
    BY Zenon, <1>10, <2>1, <2>2, <2>3 DEF Meddle
<1>11. ASSUME NEW o \in Obj, Repair(o)
       PROVE  NestedOK'
  <2>1. nested' = nested \ {o} /\ (UNCHANGED store \/ store' = [store EXCEPT ![o] = Absent])
    BY Zenon, <1>11 DEF Repair
  <2>2. \A p \in Obj \ {o} : store'[p] = store[p]
    BY Zenon, <2>1 DEF StoreInv
  <2> QED
    BY Zenon, <1>0, <2>1, <2>2 DEF NestedOK, Owned
<1> QED
  BY ZenonT(30), <1>2, <1>3, <1>4, <1>5, <1>6, <1>7, <1>8, <1>9, <1>10, <1>11 DEF Next, Worker, Environment

(* The account of the Keycloak session. *)
LEMMA SessionStep ==
  ASSUME StoreInv, [Next]_vars
  PROVE  session' \in {Bootstrap} \cup Of("user")
<1>0. session \in {Bootstrap} \cup Of("user")
  BY Zenon DEF StoreInv
<1>1. Accounts \subseteq {Bootstrap} \cup Of("user")
  BY Zenon DEF Accounts
<1>2. AtRest => session' = Bootstrap
  BY Zenon DEF AtRest
<1>3. \A v : FailWith(v) => session' = session
  BY Zenon DEF FailWith, Conclude
<1>4. CASE Start \/ AddFinalizer \/ Unfinalize \/ Record \/ PatchFails \/ Crash \/ Deliver \/ TimerFires
  BY Zenon, <1>0, <1>2, <1>4 DEF Start, AddFinalizer, Unfinalize, Record, PatchFails, Crash, Deliver, TimerFires,
     workerVars
<1>5. CASE Login \/ LoginFails \/ ReadToken \/ Specify \/ DeleteObject \/ UNCHANGED vars
  BY Zenon, <1>0, <1>1, <1>3, <1>5 DEF Login, LoginFails, ReadToken, Specify, DeleteObject, vars, workerVars
<1>6. CASE Advance \/ ListFails \/ Write \/ WriteFails
  BY Zenon, <1>0, <1>3, <1>6 DEF Advance, ListFails, Write, WriteFails
<1>7. CASE \E ca, credentials : FinalizeKeycloak(ca, credentials)
  BY Zenon, <1>0, <1>1, <1>7 DEF FinalizeKeycloak
<1>8. CASE \E t : FinalizeVault(t)
  BY Zenon, <1>0, <1>3, <1>8 DEF FinalizeVault
<1>9. CASE \E x \in Sources : Lose(x) \/ Supply(x)
  BY Zenon, <1>0, <1>9 DEF Lose, Supply, workerVars
<1>10. CASE \E o \in Obj : Look(o) \/ Delete(o) \/ DeleteFails(o) \/ Meddle(o) \/ Repair(o)
  BY Zenon, <1>0, <1>3, <1>10 DEF Look, Delete, DeleteFails, Meddle, Repair, AfterDelete, workerVars
<1> QED
  BY ZenonT(30), <1>4, <1>5, <1>6, <1>7, <1>8, <1>9, <1>10 DEF Next, Worker, Environment

LEMMA StoreStep ==
  ASSUME WorkInv, ServerInv, GenInv, StoreInv, [Next]_vars
  PROVE  StoreInv'
<1> DEFINE Housed == /\ store' \in [Obj -> Marks]
                     /\ (\E r \in Of("role") : Owned(r)') => \E m \in Of("mount") : Owned(m)'
<1>1. ASSUME UNCHANGED store
      PROVE  Housed
  BY Zenon, <1>1 DEF StoreInv, Owned
<1>2. ASSUME Written
      PROVE  Housed
  BY Zenon, <1>2, WrittenEffect
<1>3. ASSUME Removed
      PROVE  Housed
  BY Zenon, <1>3, RemovedEffect
<1>4. Housed
  BY Zenon, <1>1, <1>2, <1>3, Moves
<1>5. \A k : Of(k)' = Of(k)
  BY Zenon DEF Of
<1> QED
  BY Zenon, <1>4, <1>5, NestedStep, SessionStep DEF StoreInv, NestedOK

-----------------------------------------------------------------------------
(* A cleanup *)

(* An object that a stage of the list is still going to handle. *)
Due(op, o) ==
  \/ o \in left /\ work[1].op = op
  \/ \E i \in 2..Len(work) : work[i] = [op |-> op, kind |-> Kind[o]]

LEMMA DueEntered ==
  ASSUME NEW step \in Staged, NEW stages \in Seq(Stage), Enter(step, stages),
         \A i \in 1..Len(stages) : stages[i] \in Fits(step),
         NEW op, NEW K, Covers(stages, op, K), NEW o \in Obj, Kind[o] \in K
  PROVE  Due(op, o)'
<1>1. PICK i \in 1..Len(stages) : stages[i] = [op |-> op, kind |-> Kind[o]]
  BY Zenon DEF Covers
<1>2. i + 1 \in 2..Len(work') /\ work'[i + 1] = stages[i]
  BY Zenon, <1>1, Entered
<1> QED
  BY Zenon, <1>1, <1>2 DEF Due

(* The next stage with something to do is found. *)
LEMMA DueAdvances ==
  ASSUME WorkInv, left = {}, work' = Remaining,
         left' = IF Remaining = <<>> THEN {} ELSE Listing(Head(Remaining)),
         NEW op, NEW o \in Obj, Due(op, o), o \in Listing([op |-> op, kind |-> Kind[o]]),
         op = "clean" /\ Kind[o] = "profile" => result.keycloak = "ready"
  PROVE  Remaining # <<>> /\ Due(op, o)'
<1>1. PICK i \in 2..Len(work) : work[i] = [op |-> op, kind |-> Kind[o]]
  BY Zenon DEF Due
<1>2. Busy(i)
  <2>1. Listing(work[i]) # {}
    BY Zenon, <1>1
  <2>2. ASSUME work[i] = [op |-> "clean", kind |-> "profile"]
        PROVE  op = "clean" /\ Kind[o] = "profile"
    <3>1. work[i].op = "clean" /\ work[i].kind = "profile" /\ work[i].op = op /\ work[i].kind = Kind[o]
      BY SMTT(30), <1>1, <2>2
    <3> QED
      BY Zenon, <3>1
  <2> QED
    BY Zenon, <2>1, <2>2 DEF Busy
<1>3. work \in Seq(Stage)
  BY Zenon DEF WorkInv
<1>4. PICK m \in 2..Len(work) : /\ Remaining = From(m) /\ \A j \in 2..(m - 1) : ~Busy(j)
  BY Zenon, <1>2, <1>3, RemainingStages
<1>5. i \notin 2..(m - 1)
  BY Zenon, <1>2, <1>4
<1>6. i = m \/ i \in (m + 1)..Len(work)
  BY SMTT(30), <1>3, <1>5, LenProperties
<1>7. /\ work' = From(m) /\ From(m) # <<>> /\ From(m)[1] = work[m] /\ Head(From(m)) = work[m]
      /\ \A j \in (m + 1)..Len(work) : \E k \in 2..Len(From(m)) : From(m)[k] = work[j]
  BY Zenon, <1>3, <1>4, Later
<1>8. CASE i = m
  <2>1. left' = Listing(work[m])
    BY Zenon, <1>4, <1>7
  <2>2. o \in left'
    BY Zenon, <1>1, <1>8, <2>1
  <2>3. work'[1].op = op
    <3>1. work'[1] = [op |-> op, kind |-> Kind[o]]
      BY Zenon, <1>1, <1>7, <1>8
    <3> QED
      BY SMTT(30), <3>1
  <2> QED
    BY Zenon, <1>4, <1>7, <2>2, <2>3 DEF Due
<1>9. CASE i \in (m + 1)..Len(work)
  <2>1. PICK k \in 2..Len(From(m)) : From(m)[k] = work[i]
    BY Zenon, <1>7, <1>9
  <2>2. k \in 2..Len(work') /\ work'[k] = [op |-> op, kind |-> Kind[o]]
    BY Zenon, <1>1, <1>7, <2>1
  <2> QED
    BY Zenon, <1>4, <1>7, <2>2 DEF Due
<1> QED
  BY Zenon, <1>6, <1>8, <1>9

LEMMA DueStays ==
  ASSUME UNCHANGED work, NEW op, NEW o, o \in left => o \in left', Due(op, o)
  PROVE  Due(op, o)'
BY Zenon DEF Due

(* The cleanup: what it has not removed yet, it still comes to. *)
SweepInv ==
  /\ pc = "cleanKeycloak" /\ result.keycloak = "ready"
       => \A o \in Obj : Owned(o) /\ Kind[o] \in KeycloakKinds => Due("clean", o)
  /\ pc \in {"cleanToken", "cleanVault", "unfinalize"} /\ result.keycloak = "ready" /\ ~skipped
       => \A o \in Obj : Kind[o] \in KeycloakKinds => ~Owned(o)
  /\ pc = "cleanVault" => \A o \in Obj : Owned(o) /\ Kind[o] \in VaultKinds \ {"role"} => Due("clean", o)
  /\ pc = "unfinalize" /\ ~skipped => \A o \in Obj : ~Owned(o)

Sweeping == {"cleanKeycloak", "cleanToken", "cleanVault", "unfinalize"}

LEMMA SweepElsewhere ==
  ASSUME pc' \notin Sweeping
  PROVE  SweepInv'
BY Zenon DEF SweepInv, Sweeping

LEMMA SweepKept ==
  ASSUME SweepInv, UNCHANGED <<pc, work, left, result, skipped>>, \A o \in Obj : Owned(o)' => Owned(o)
  PROVE  SweepInv'
<1>1. \A o \in Obj : Due("clean", o) => Due("clean", o)'
  BY Zenon DEF Due
<1> QED
  BY Zenon, <1>1 DEF SweepInv

LEMMA ListedClean ==
  ASSUME NEW o \in Obj, Owned(o)
  PROVE  o \in Listing([op |-> "clean", kind |-> Kind[o]])
BY SMTT(30) DEF Listing, Of

LEMMA KindsApart == \A o \in Obj : /\ Kind[o] \in KeycloakKinds <=> InKeycloak(o)
                                   /\ Kind[o] \in VaultKinds <=> ~InKeycloak(o)
<1>1. \A o \in Obj : Kind[o] \in KeycloakKinds \cup VaultKinds
  BY Zenon, OperatorAssumption, KindLists
<1>2. KeycloakKinds \cap VaultKinds = {}
  BY Zenon, KindLists
<1> QED
  BY Zenon, <1>1, <1>2 DEF InKeycloak, KeycloakKinds

(* What is in hand in a step belongs to the provider of that step. *)
LEMMA InHand ==
  ASSUME WorkInv, Pruning, NEW o \in left
  PROVE  /\ pc \in Staged
         /\ pc \in {"keycloak", "cleanKeycloak"} => InKeycloak(o)
         /\ pc \in {"vault", "cleanVault"} => ~InKeycloak(o)
<1>1. work # <<>> /\ work[1].op \in {"prune", "clean"}
  BY SMTT(30) DEF WorkInv, Pruning
<1>2. work[1] \in Fits(pc) /\ o \in Of(work[1].kind) /\ pc \in Staged
  BY Zenon, <1>1 DEF WorkInv
<1>3. o \in Obj /\ Kind[o] = work[1].kind
  BY Zenon, <1>2 DEF Of
<1>4. /\ pc \in {"keycloak", "cleanKeycloak"} => Kind[o] \in KeycloakKinds
      /\ pc \in {"vault", "cleanVault"} => Kind[o] \in VaultKinds
  BY Zenon, <1>2, <1>3 DEF Fits
<1> QED
  BY Zenon, <1>2, <1>3, <1>4, KindsApart

(* A removal that is not refused leaves one object less. *)
LEMMA OneLess ==
  ASSUME StoreInv, NEW o \in Obj, Delete(o), Refusal(o) = "ready"
  PROVE  ~Owned(o)' /\ \A p \in Obj : Owned(p)' => Owned(p)
<1>1. CASE Owned(o)
  <2>1. store' = Without(o)
    BY Zenon, <1>1 DEF Delete
  <2> QED
    BY Zenon, <2>1, WithoutEffect, MarkFacts DEF Owned
<1>2. CASE ~Owned(o)
  BY Zenon, <1>2 DEF Delete, Owned
<1> QED
  BY Zenon, <1>1, <1>2

LEMMA SweepStep ==
  ASSUME WorkInv, ServerInv, StoreInv, SweepInv, [Next]_vars
  PROVE  SweepInv'
<1>0. /\ {"idle", "record", "keycloak", "vault", "token", "login", "addFinalizer", "finalize"} \cap Sweeping = {}
      /\ Making \cap Sweeping = {}
  BY Zenon DEF Sweeping, Making
<1>01. AtRest => SweepInv'
  BY Zenon, <1>0, SweepElsewhere DEF AtRest
<1>02. ASSUME NEW v, FailWith(v)
       PROVE  SweepInv'
  BY Zenon, <1>0, <1>02, SweepElsewhere DEF FailWith, Conclude
<1>03. ASSUME UNCHANGED workerVars, UNCHANGED store \/ Removed
       PROVE  SweepInv'
  <2>1. \A o \in Obj : Owned(o)' => Owned(o)
    BY Zenon, <1>03, RemovedEffect DEF Owned
  <2> QED
    BY Zenon, <1>03, <2>1, SweepKept DEF workerVars
<1>04. work # <<>> => pc \in Staged
  BY Zenon DEF WorkInv
<1>1. CASE Start
  <2>1. AtRest \/ pc' \in {"finalize", "record", "addFinalizer", "login"}
    BY Zenon, <1>1 DEF Start
  <2> QED
    BY Zenon, <1>0, <1>01, <2>1, SweepElsewhere
<1>2. CASE AddFinalizer \/ Unfinalize \/ Record \/ PatchFails \/ Crash
  BY Zenon, <1>01, <1>2 DEF AddFinalizer, Unfinalize, Record, PatchFails, Crash
<1>3. CASE Login \/ LoginFails \/ ReadToken
  <2>1. pc' \in {"keycloak", "vault", "record"}
    BY Zenon, <1>3 DEF Login, LoginFails, ReadToken, Enter, FailWith, Conclude
  <2> QED
    BY Zenon, <1>0, <2>1, SweepElsewhere
<1>4. ASSUME NEW o \in Obj, Look(o)
      PROVE  SweepInv'
  <2>1. pc' \in {"keycloak", "vault", "record"}
    BY Zenon, <1>4 DEF Look, Writing, FailWith, Conclude
  <2> QED
    BY Zenon, <1>0, <2>1, SweepElsewhere
<1>5. CASE Write \/ WriteFails
  <2>1. pc' \in {"keycloak", "vault", "record"}
    BY Zenon, <1>5 DEF Write, WriteFails, Writing, FailWith, Conclude
  <2> QED
    BY Zenon, <1>0, <2>1, SweepElsewhere
<1>6. ASSUME NEW o \in Obj, Delete(o) \/ DeleteFails(o), pc \in {"cleanKeycloak", "cleanVault"}
      PROVE  SweepInv'
  <2>0. Pruning /\ o \in left
    BY Zenon, <1>6 DEF Delete, DeleteFails
  <2>1. PICK v : /\ AfterDelete(o, v)
                 /\ v = "ready" => Delete(o) /\ Refusal(o) = "ready"
    <3>1. "transient" # "ready"
      BY Zenon
    <3> QED
      BY Zenon, <1>6, <3>1 DEF Delete, DeleteFails
  <2>2. CASE ~(v = "ready" \/ InKeycloak(o))
    BY Zenon, <1>02, <2>1, <2>2 DEF AfterDelete
  <2>3. CASE v # "ready" /\ InKeycloak(o)
    <3>1. pc = "cleanKeycloak"
      BY Zenon, <1>6, <2>0, <2>3, InHand
    <3>2. pc' = pc /\ result' = [result EXCEPT !.keycloak = v]
      BY Zenon, <2>1, <2>3 DEF AfterDelete
    <3>3. result'.keycloak = v
      BY Zenon, <3>2 DEF ServerInv, Results
    <3>4. result'.keycloak # "ready"
      BY Zenon, <2>3, <3>3
    <3> QED
      BY Zenon, <3>1, <3>2, <3>4 DEF SweepInv
  <2>4. CASE v = "ready"
    <3>1. ~Owned(o)' /\ \A p \in Obj : Owned(p)' => Owned(p)
      BY Zenon, <2>1, <2>4, OneLess
    <3>2. left' = left \ {o} /\ UNCHANGED <<pc, work, result, skipped>>
      BY Zenon, <2>1, <2>4 DEF AfterDelete
    <3>3. \A p \in Obj : Owned(p)' /\ Due("clean", p) => Due("clean", p)'
      BY Zenon, <3>1, <3>2 DEF Due
    <3> QED
      BY Zenon, <3>1, <3>2, <3>3 DEF SweepInv
  <2> QED
    BY Zenon, <2>2, <2>3, <2>4
<1>7. ASSUME NEW o \in Obj, Delete(o) \/ DeleteFails(o), pc \notin {"cleanKeycloak", "cleanVault"}
      PROVE  SweepInv'
  <2>1. pc \in {"keycloak", "vault"}
    BY Zenon, <1>04, <1>7 DEF Delete, DeleteFails, Pruning, Staged
  <2>2. pc' \in {"keycloak", "vault", "record"}
    BY Zenon, <1>7, <2>1 DEF Delete, DeleteFails, AfterDelete, FailWith, Conclude
  <2> QED
    BY Zenon, <1>0, <2>2, SweepElsewhere
<1>8. CASE Advance
  <2>0. work # <<>> /\ left = {} /\ pc \in Staged
    BY Zenon, <1>04, <1>8 DEF Advance
  <2>1. CASE pc \in {"keycloak", "vault"}
    <3>1. pc' \in {"keycloak", "vault", "token", "record"}
      BY Zenon, <1>8, <2>1 DEF Advance, Finished, FailWith, Conclude
    <3> QED
      BY Zenon, <1>0, <3>1, SweepElsewhere
  <2>2. CASE pc \in {"cleanKeycloak", "cleanVault"}
    <3>1. /\ work' = Remaining /\ left' = IF Remaining = <<>> THEN {} ELSE Listing(Head(Remaining))
          /\ UNCHANGED <<store, skipped>>
          /\ IF Remaining = <<>> THEN Finished ELSE UNCHANGED <<pc, result>>
      BY Zenon, <1>8, <2>2 DEF Advance, providers
    <3>2. \A o \in Obj : Owned(o)' <=> Owned(o)
      BY Zenon, <3>1 DEF Owned
    <3>3. ASSUME NEW o \in Obj, Owned(o), Due("clean", o), Kind[o] = "profile" => result.keycloak = "ready"
          PROVE  Remaining # <<>> /\ Due("clean", o)'
      <4>1. o \in Listing([op |-> "clean", kind |-> Kind[o]])
        BY Zenon, <3>3, ListedClean
      <4> QED
        BY Zenon, <2>0, <3>1, <3>3, <4>1, DueAdvances
    <3>4. "profile" \notin VaultKinds
      BY Zenon, KindLists
    <3>5. CASE Remaining # <<>>
      <4>1. UNCHANGED <<pc, result, skipped>>
        BY Zenon, <3>1, <3>5
      <4> QED
        BY ZenonT(30), <3>2, <3>3, <3>4, <4>1 DEF SweepInv
    <3>6. CASE Remaining = <<>> /\ pc = "cleanKeycloak"
      <4>1. pc' = "cleanToken" /\ UNCHANGED <<result, skipped>>
        BY Zenon, <3>1, <3>6 DEF Finished
      <4>2. result.keycloak = "ready" => \A o \in Obj : Kind[o] \in KeycloakKinds => ~Owned(o)
        BY Zenon, <3>3, <3>6 DEF SweepInv
      <4> QED
        BY Zenon, <3>2, <4>1, <4>2 DEF SweepInv
    <3>7. CASE Remaining = <<>> /\ pc = "cleanVault"
      <4>1. \/ pc' = "record"
            \/ pc' = "unfinalize" /\ result.keycloak = "ready" /\ UNCHANGED <<result, skipped>>
        BY Zenon, <3>1, <3>7 DEF Finished
      <4>2. CASE pc' = "record"
        BY Zenon, <1>0, <4>2, SweepElsewhere
      <4>3. CASE pc' = "unfinalize" /\ result.keycloak = "ready" /\ UNCHANGED <<result, skipped>>
        <5>1. \A o \in Obj : Kind[o] \in VaultKinds \ {"role"} => ~Owned(o)
          BY Zenon, <3>3, <3>4, <3>7 DEF SweepInv
        <5>2. "mount" \in VaultKinds \ {"role"}
          BY Zenon, KindLists
        <5>3. \A o \in Obj : Kind[o] = "role" => ~Owned(o)
          BY Zenon, <5>1, <5>2 DEF StoreInv, Of
        <5>4. \A o \in Obj : Kind[o] \in VaultKinds => ~Owned(o)
          BY Zenon, <5>1, <5>3
        <5>5. ~skipped => \A o \in Obj : Kind[o] \in KeycloakKinds => ~Owned(o)
          BY Zenon, <3>7, <4>3 DEF SweepInv
        <5>6. ~skipped => \A o \in Obj : ~Owned(o)
          BY Zenon, <5>4, <5>5, KindsApart
        <5> QED
          BY Zenon, <3>2, <4>3, <5>6 DEF SweepInv
      <4> QED
        BY Zenon, <4>1, <4>2, <4>3
    <3> QED
      BY Zenon, <2>2, <3>5, <3>6, <3>7
  <2> QED
    BY Zenon, <2>0, <2>1, <2>2 DEF Staged
<1>9. CASE ListFails
  <2>1. CASE pc = "cleanKeycloak"
    <3>1. pc' = pc /\ result' = [result EXCEPT !.keycloak = "transient"]
      BY Zenon, <1>9, <2>1 DEF ListFails
    <3>2. result'.keycloak = "transient"
      BY Zenon, <3>1 DEF ServerInv, Results
    <3> QED
      BY Zenon, <2>1, <3>1, <3>2 DEF SweepInv
  <2> QED
    BY Zenon, <1>02, <1>9, <2>1 DEF ListFails
<1>10. ASSUME NEW ca \in Readings("ca"), NEW credentials \in Readings("credentials"),
              FinalizeKeycloak(ca, credentials)
       PROVE  SweepInv'
  <2>0. \A o \in Obj : Owned(o)' <=> Owned(o)
    BY Zenon, <1>10 DEF FinalizeKeycloak, providers, Owned
  <2>1. CASE {ca, credentials} = {"ok"}
    <3>1. Enter("cleanKeycloak", Stages("clean", KeycloakClean \o <<"profile">>))
      BY Zenon, <1>10, <2>1 DEF FinalizeKeycloak
    <3>2. "cleanKeycloak" \in Staged
      BY Zenon DEF Staged
    <3>3. \A o \in Obj : Kind[o] \in KeycloakKinds => Due("clean", o)'
      BY Zenon, <3>1, <3>2, CleanKeycloakList, DueEntered
    <3>4. pc' = "cleanKeycloak"
      BY Zenon, <3>1 DEF Enter
    <3> QED
      BY Zenon, <3>3, <3>4 DEF SweepInv
  <2>2. CASE {ca, credentials} # {"ok"}
    <3>1. pc' = "cleanToken" /\ skipped' = ("gone" \in {ca, credentials})
      BY Zenon, <1>10, <2>2 DEF FinalizeKeycloak
    <3>2. result' = [keycloak |-> IF "error" \in {ca, credentials} /\ "gone" \notin {ca, credentials}
                                  THEN "transient" ELSE "ready",
                     vault |-> "ready"]
      BY Zenon, <1>10 DEF FinalizeKeycloak
    <3>3. "gone" \in {ca, credentials} \/ "error" \in {ca, credentials}
      BY Zenon, <2>2 DEF Readings
    <3>4. skipped' \/ result'.keycloak = "transient"
      BY Zenon, <3>1, <3>2, <3>3
    <3> QED
      BY Zenon, <3>1, <3>4 DEF SweepInv
  <2> QED
    BY Zenon, <2>1, <2>2
<1>11. ASSUME NEW t, FinalizeVault(t)
       PROVE  SweepInv'
  <2>0. pc = "cleanToken" /\ \A o \in Obj : Owned(o)' <=> Owned(o)
    BY Zenon, <1>11 DEF FinalizeVault, providers, Owned
  <2>1. CASE Enter("cleanVault", Stages("clean", VaultPrune)) /\ UNCHANGED <<result, skipped>>
    <3>1. "cleanVault" \in Staged
      BY Zenon DEF Staged
    <3>2. \A o \in Obj : Kind[o] \in VaultKinds \ {"role"} => Due("clean", o)'
      BY Zenon, <2>1, <3>1, CleanVaultList, DueEntered
    <3>3. pc' = "cleanVault"
      BY Zenon, <2>1 DEF Enter
    <3> QED
      BY Zenon, <2>0, <2>1, <3>2, <3>3 DEF SweepInv
  <2>2. CASE skipped' = TRUE /\ Finished
    <3>1. pc' \in {"unfinalize", "record"}
      BY Zenon, <2>0, <2>2 DEF Finished
    <3> QED
      BY Zenon, <2>2, <3>1 DEF SweepInv
  <2> QED
    BY Zenon, <1>02, <1>11, <2>1, <2>2 DEF FinalizeVault
<1>12. CASE Specify \/ DeleteObject \/ Deliver \/ TimerFires \/ UNCHANGED vars
  BY Zenon, <1>03, <1>12 DEF Specify, DeleteObject, Deliver, TimerFires, vars, providers
<1>13. ASSUME NEW o \in Obj, Meddle(o) \/ Repair(o)
       PROVE  SweepInv'
  <2>1. UNCHANGED workerVars
    BY Zenon, <1>13 DEF Meddle, Repair
  <2>2. UNCHANGED store \/ Removed
    BY Zenon, <1>13 DEF Meddle, Repair, Removed
  <2> QED
    BY Zenon, <1>03, <2>1, <2>2
<1>14. ASSUME NEW x \in Sources, Lose(x) \/ Supply(x)
       PROVE  SweepInv'
  BY Zenon, <1>03, <1>14 DEF Lose, Supply
<1> QED
  BY ZenonT(30), <1>1, <1>2, <1>3, <1>4, <1>5, <1>6, <1>7, <1>8, <1>9, <1>10, <1>11, <1>12, <1>13, <1>14
     DEF Next, Worker, Environment

(* Only the worker's last step can orphan an object. *)
LEMMA OrphanedKept ==
  ASSUME [Next]_vars
  PROVE  UNCHANGED orphaned \/ Unfinalize
<1>1. CASE Start \/ AddFinalizer \/ Record \/ PatchFails \/ Crash \/ Deliver \/ TimerFires
  BY Zenon, <1>1 DEF Start, AddFinalizer, Record, PatchFails, Crash, Deliver, TimerFires
<1>2. CASE Login \/ LoginFails \/ ReadToken \/ Advance \/ ListFails \/ Specify \/ DeleteObject \/ UNCHANGED vars
  BY Zenon, <1>2 DEF Login, LoginFails, ReadToken, Advance, ListFails, Specify, DeleteObject, vars
<1>3. CASE \E ca, credentials : FinalizeKeycloak(ca, credentials)
  BY Zenon, <1>3 DEF FinalizeKeycloak
<1>4. CASE \E t : FinalizeVault(t)
  BY Zenon, <1>4 DEF FinalizeVault
<1>5. CASE \E x \in Sources : Lose(x) \/ Supply(x)
  BY Zenon, <1>5 DEF Lose, Supply
<1>6. CASE Write \/ WriteFails
  BY Zenon, <1>6 DEF Write, WriteFails
<1>7. CASE \E o \in Obj : Look(o) \/ Delete(o) \/ DeleteFails(o) \/ Meddle(o) \/ Repair(o)
  BY Zenon, <1>7 DEF Look, Delete, DeleteFails, Meddle, Repair
<1> QED
  BY ZenonT(30), <1>1, <1>2, <1>3, <1>4, <1>5, <1>6, <1>7 DEF Next, Worker, Environment

LEMMA GuardsStep ==
  ASSUME WorkInv, ServerInv, GenInv, FinInv, StoreInv, SweepInv, FinalizerGuards, [Next]_vars
  PROVE  FinalizerGuards'
<1>1. CASE Unfinalize
  <2>1. pc = "unfinalize" /\ UNCHANGED store /\ orphaned' = (orphaned \/ skipped)
    BY Zenon, <1>1 DEF Unfinalize, providers
  <2>2. ~orphaned' => \A o \in Obj : ~Owned(o)'
    BY Zenon, <2>1 DEF SweepInv, Owned
  <2> QED
    BY Zenon, <2>2 DEF FinalizerGuards
<1>2. CASE Written
  <2>1. pc \in {"keycloak", "vault"}
    BY Zenon, <1>2 DEF Written, Writing
  <2>2. object' = object
    <3>1. ~AtServer /\ pc # "addFinalizer" /\ pc # "unfinalize" /\ pc # "record"
      BY Zenon, <2>1 DEF AtServer
    <3> QED
      BY Zenon, <3>1, Talks DEF AddFinalizer, Unfinalize, Record, Crash, Deliver, Specify, DeleteObject, server
  <2> QED
    BY Zenon, <2>1, <2>2 DEF FinInv, FinalizerGuards, Making
<1>3. CASE ~Unfinalize /\ (UNCHANGED store \/ Removed)
  <2>1. UNCHANGED orphaned
    BY Zenon, <1>3, OrphanedKept
  <2>2. \A o \in Obj : Owned(o)' => Owned(o)
    BY Zenon, <1>3, RemovedEffect DEF Owned
  <2>3. ASSUME object.exists, object.finalizer
        PROVE  object'.exists /\ object'.finalizer
    <3>1. CASE DeleteObject
      <4>1. object \in Config /\ object' = [object EXCEPT !.deleted = TRUE]
        BY Zenon, <2>3, <3>1 DEF DeleteObject, ServerInv
      <4>2. object'.exists = object.exists /\ object'.finalizer = object.finalizer
        BY Zenon, <4>1 DEF Config
      <4> QED
        BY Zenon, <2>3, <4>2
    <3>2. CASE UNCHANGED object
      BY Zenon, <2>3, <3>2
    <3>3. CASE AddFinalizer \/ Record \/ Specify
      BY Zenon, <2>3, <3>3, ObjectUpdates
    <3> QED
      BY Zenon, <1>3, <3>1, <3>2, <3>3, Talks DEF Crash, Deliver, server
  <2> QED
    BY Zenon, <2>1, <2>2, <2>3 DEF FinalizerGuards
<1> QED
  BY Zenon, <1>1, <1>2, <1>3, Moves

-----------------------------------------------------------------------------
(* A reconciliation *)

(* A reconciliation: what is not yet as declared, it still comes to. *)
Applied(o) == IF o \in Declared(job.gen) THEN store[o] = job.gen ELSE ~Owned(o)
Coming(o) == IF o \in Declared(job.gen) THEN store[o] = job.gen \/ Due("ensure", o)
             ELSE Owned(o) => Due("prune", o)
ApplyInv ==
  /\ pc \in {"token", "vault"} => result.keycloak = "ready"
  /\ pc = "keycloak" /\ result.keycloak = "ready" /\ ~tampered
       => \A o \in Obj : InKeycloak(o) => Coming(o)
  /\ pc \in {"token", "vault"} /\ ~tampered => \A o \in Obj : InKeycloak(o) => Applied(o)
  /\ pc = "vault" /\ ~tampered => \A o \in Obj : ~InKeycloak(o) => Coming(o)
  /\ pc = "record" /\ Ready(result) /\ ~job.deleted /\ ~tampered => \A o \in Obj : Applied(o)

LEMMA ApplyElsewhere ==
  ASSUME pc' \notin {"keycloak", "token", "vault", "record"}
  PROVE  ApplyInv'
BY Zenon DEF ApplyInv

LEMMA ApplyDeleted ==
  ASSUME pc' = "record", job'.deleted \/ ~Ready(result')
  PROVE  ApplyInv'
BY Zenon DEF ApplyInv

LEMMA ApplyFails ==
  ASSUME NEW v, v # "ready", FailWith(v)
  PROVE  ApplyInv'
<1>1. pc' = "record" /\ ~Ready(result')
  BY Zenon, Endings
<1> QED
  BY Zenon, <1>1, ApplyDeleted

(* The declaration of an attempt does not change under it. *)
LEMMA DeclaredKept ==
  ASSUME ServerInv, GenInv, [Next]_vars, job' = job
  PROVE  Declared(job.gen)' = Declared(job.gen)
<1>1. CASE UNCHANGED intent
  BY Zenon, <1>1 DEF Declared
<1>2. CASE Specify
  <2>1. PICK i \in Intents[Len(intent) + 1] : intent' = Append(intent, i)
    BY Zenon, <1>2 DEF Specify
  <2>2. intent \in Seq(Declarations) /\ Len(intent) \in Nat /\ job.gen \in 0..Len(intent)
    BY Zenon, LenProperties DEF ServerInv, GenInv, Dated
  <2>3. DOMAIN intent = 1..Len(intent)
    BY Zenon, <2>2, LenProperties
  <2>4. intent \in Seq(Declarations \cup {i}) /\ i \in Declarations \cup {i}
    BY SMTT(30), <2>2
  <2>5. /\ DOMAIN intent' = 1..Len(intent) + 1
        /\ \A g \in 1..Len(intent) : intent'[g] = intent[g]
    BY SMTT(30), <2>1, <2>2, <2>4, AppendProperties
  <2>6. job.gen \in DOMAIN intent' <=> job.gen \in DOMAIN intent
    BY SMTT(30), <2>2, <2>3, <2>5
  <2>7. job.gen \in DOMAIN intent => intent'[job.gen] = intent[job.gen]
    BY Zenon, <2>3, <2>5
  <2> QED
    BY Zenon, <2>6, <2>7 DEF Declared
<1> QED
  BY Zenon, <1>1, <1>2, Talks DEF AddFinalizer, Unfinalize, Record, Crash, Deliver, DeleteObject, server

(* A step that changes neither the work nor the providers. *)
LEMMA ApplyKept ==
  ASSUME ApplyInv, UNCHANGED <<pc, job, work, left, result, store, tampered>>,
         Declared(job.gen)' = Declared(job.gen)
  PROVE  ApplyInv'
<1>1. \A o : (Applied(o) => Applied(o)') /\ (Coming(o) => Coming(o)')
  BY Zenon DEF Applied, Coming, Due, Owned
<1> QED
  BY Zenon, <1>1 DEF ApplyInv

(* The list of a reconciliation comes to every object. *)
LEMMA EntersWhole ==
  ASSUME NEW step \in {"keycloak", "vault"}, NEW stages \in Seq(Stage), Enter(step, stages),
         \A i \in 1..Len(stages) : stages[i] \in Fits(step), NEW K, NEW P,
         Covers(stages, "ensure", K), Covers(stages, "prune", P), K \ P \subseteq {"profile", "role"},
         Complete(Declared(job.gen)), job' = job, Declared(job.gen)' = Declared(job.gen),
         UNCHANGED store, NEW o \in Obj, Kind[o] \in K
  PROVE  Coming(o)'
<1>1. step \in Staged
  BY Zenon DEF Staged
<1>2. CASE o \in Declared(job.gen)
  <2>1. Due("ensure", o)'
    BY Zenon, <1>1, DueEntered
  <2> QED
    BY Zenon, <1>2, <2>1 DEF Coming
<1>3. CASE o \notin Declared(job.gen)
  <2>1. Kind[o] \notin {"profile", "role"}
    BY Zenon, <1>3 DEF Complete
  <2>2. Due("prune", o)'
    BY Zenon, <1>1, <2>1, DueEntered
  <2> QED
    BY Zenon, <1>3, <2>2 DEF Coming
<1> QED
  BY Zenon, <1>2, <1>3

(* Going on to the next stage with something to do. *)
LEMMA ComingAdvances ==
  ASSUME WorkInv, left = {}, work' = Remaining,
         left' = IF Remaining = <<>> THEN {} ELSE Listing(Head(Remaining)),
         UNCHANGED <<store, job>>, Declared(job.gen)' = Declared(job.gen),
         NEW o \in Obj, Coming(o)
  PROVE  Coming(o)' /\ (Remaining = <<>> => Applied(o)')
<1>1. CASE o \in Declared(job.gen) /\ store[o] = job.gen
  BY Zenon, <1>1 DEF Coming, Applied
<1>2. CASE o \in Declared(job.gen) /\ Due("ensure", o)
  <2>1. o \in Listing([op |-> "ensure", kind |-> Kind[o]])
    BY SMTT(30), <1>2 DEF Listing, Of
  <2>2. ~("ensure" = "clean")
    BY Zenon
  <2>3. Remaining # <<>> /\ Due("ensure", o)'
    BY Zenon, <1>2, <2>1, <2>2, DueAdvances
  <2> QED
    BY Zenon, <1>2, <2>3 DEF Coming
<1>3. CASE o \notin Declared(job.gen) /\ ~Owned(o)
  BY Zenon, <1>3 DEF Coming, Applied, Owned
<1>4. CASE o \notin Declared(job.gen) /\ Owned(o) /\ Due("prune", o)
  <2>1. o \in Listing([op |-> "prune", kind |-> Kind[o]])
    BY SMTT(30), <1>4 DEF Listing, Of
  <2>2. ~("prune" = "clean")
    BY Zenon
  <2>3. Remaining # <<>> /\ Due("prune", o)'
    BY Zenon, <1>4, <2>1, <2>2, DueAdvances
  <2> QED
    BY Zenon, <1>4, <2>3 DEF Coming
<1> QED
  BY Zenon, <1>1, <1>2, <1>3, <1>4 DEF Coming

(* Removing an object that is not declared touches no declared one. *)
LEMMA PruneApplies ==
  ASSUME WorkInv, ServerInv, GenInv, StoreInv, NEW o \in Obj, Delete(o), Refusal(o) = "ready",
         pc \in {"keycloak", "vault"}, UNCHANGED <<job, work>>, left' = left \ {o},
         Declared(job.gen)' = Declared(job.gen)
  PROVE  \A p \in Obj : (Applied(p) => Applied(p)') /\ (Coming(p) => Coming(p)')
<1>1. work # <<>> /\ work[1].op \in {"prune", "clean"} /\ o \in left
  BY SMTT(30) DEF WorkInv, Delete, Pruning
<1>2. work[1] \in Fits(pc)
  BY Zenon, <1>1 DEF WorkInv
<1>3. work[1].op = "prune"
  BY Zenon, <1>1, <1>2 DEF Fits
<1>4. o \notin Declared(job.gen)
  BY Zenon, <1>1, <1>3 DEF WorkInv
<1>5. Complete(Declared(job.gen))
  BY Zenon, WriteNumber DEF Making
<1>6. ~Owned(o)' /\ \A p \in Obj : Owned(p)' => Owned(p)
  BY Zenon, OneLess
<1>7. ASSUME NEW p \in Obj, p \in Declared(job.gen)
      PROVE  store'[p] = store[p] /\ p # o
  <2>1. p # o
    BY Zenon, <1>4, <1>7
  <2>2. Kind[o] # "mount" /\ (Kind[o] = "extgroup" => Kind[p] # "alias")
    BY Zenon, <1>4, <1>5, <1>7 DEF Complete
  <2>3. Without(o)[p] = store[p]
    BY Zenon, <2>1, <2>2, WithoutEffect
  <2> QED
    BY Zenon, <2>1, <2>3 DEF Delete
<1>8. ASSUME NEW p \in Obj, NEW op, p # o, Due(op, p)
      PROVE  Due(op, p)'
  BY Zenon, <1>8, DueStays
<1>9. ASSUME NEW p \in Obj, p \in Declared(job.gen)
      PROVE  (Applied(p) => Applied(p)') /\ (Coming(p) => Coming(p)')
  BY Zenon, <1>7, <1>8, <1>9 DEF Applied, Coming
<1>10. ASSUME NEW p \in Obj, p \notin Declared(job.gen)
       PROVE  (Applied(p) => Applied(p)') /\ (Coming(p) => Coming(p)')
  <2>1. Owned(p)' => p # o /\ Owned(p)
    BY Zenon, <1>6
  <2> QED
    BY Zenon, <1>8, <1>10, <2>1 DEF Applied, Coming
<1> QED
  BY Zenon, <1>9, <1>10

(* A write that is complete. *)
LEMMA WriteApplies ==
  ASSUME WorkInv, ServerInv, GenInv, StoreInv, Write, Accepted(seen.name, seen.was), ~Blocked(seen.name),
         Declared(job.gen)' = Declared(job.gen)
  PROVE  /\ UNCHANGED <<pc, job, result, tampered>>
         /\ \A p \in Obj : (Applied(p) => Applied(p)') /\ (Coming(p) => Coming(p)')
<1>1. Writing /\ seen # Unseen
  BY Zenon DEF Write
<1>2. PICK o \in Obj : o = seen.name /\ o \in Declared(job.gen)
  BY Zenon, <1>1, WritesDeclared
<1>3. /\ store' = [store EXCEPT ![o] = job.gen] /\ left' = left \ {o}
      /\ UNCHANGED <<pc, job, work, result, tampered>>
  BY Zenon, <1>2 DEF Write
<1>4. store'[o] = job.gen /\ \A p \in Obj \ {o} : store'[p] = store[p]
  BY Zenon, <1>3 DEF StoreInv
<1>5. ASSUME NEW p \in Obj, NEW op, p # o, Due(op, p)
      PROVE  Due(op, p)'
  BY Zenon, <1>3, <1>5, DueStays
<1>6. ASSUME NEW p \in Obj, p # o
      PROVE  (Applied(p) => Applied(p)') /\ (Coming(p) => Coming(p)')
  <2>1. store'[p] = store[p]
    BY Zenon, <1>4, <1>6
  <2> QED
    BY Zenon, <1>3, <1>5, <1>6, <2>1 DEF Applied, Coming, Owned
<1>7. Applied(o)' /\ Coming(o)'
  BY Zenon, <1>2, <1>3, <1>4 DEF Applied, Coming
<1> QED
  BY Zenon, <1>3, <1>6, <1>7

LEMMA ApplyStep ==
  ASSUME WorkInv, ServerInv, GenInv, FinInv, StoreInv, ApplyInv, [Next]_vars
  PROVE  ApplyInv'
<1>0. job' = job => Declared(job.gen)' = Declared(job.gen)
  BY Zenon, DeclaredKept
<1>01. AtRest => ApplyInv'
  BY Zenon, ApplyElsewhere DEF AtRest
<1>02. FailWith("transient") \/ FailWith("conflict") => ApplyInv'
  <2>1. "transient" # "ready" /\ "conflict" # "ready"
    BY Zenon
  <2> QED
    BY Zenon, <2>1, ApplyFails
<1>03. ASSUME UNCHANGED workerVars, UNCHANGED <<store, tampered>>
       PROVE  ApplyInv'
  BY Zenon, <1>0, <1>03, ApplyKept DEF workerVars
<1>04. work # <<>> => pc \in Staged
  BY Zenon DEF WorkInv
<1>1. CASE Start
  <2>1. AtRest \/ Begins
    <3>1. CASE UNCHANGED <<pc, job>> /\ ~AtRest
      <4>1. job' = cache /\ cache.exists /\ pc' \in {"finalize", "record", "addFinalizer", "login"} /\ pc = "idle"
        BY Zenon, <1>1, <3>1 DEF Start
      <4> QED
        BY Zenon, <3>1, <4>1
    <3>2. ~Proceeds
      BY Zenon, <1>1 DEF Start, Proceeds, Making, Cleaning
    <3> QED
      BY Zenon, <3>1, <3>2, Flow
  <2>2. CASE Begins
    <3>1. pc' \in {"finalize", "addFinalizer", "login"} \/ (pc' = "record" /\ result'.keycloak = "invalid")
      BY Zenon, <2>2 DEF Begins
    <3>2. CASE pc' \in {"finalize", "addFinalizer", "login"}
      BY Zenon, <3>2, ApplyElsewhere
    <3>3. CASE pc' = "record" /\ result'.keycloak = "invalid"
      BY Zenon, <3>3, ApplyDeleted DEF Ready
    <3> QED
      BY Zenon, <3>1, <3>2, <3>3
  <2> QED
    BY Zenon, <1>01, <2>1, <2>2
<1>2. CASE AddFinalizer \/ Unfinalize \/ Record \/ PatchFails \/ Crash
  BY Zenon, <1>01, <1>2 DEF AddFinalizer, Unfinalize, Record, PatchFails, Crash
<1>3. CASE Login
  <2> DEFINE stages == Stages("ensure", KeycloakEnsure) \o Stages("prune", KeycloakPrune)
  <2>1. pc \in Making /\ Enter("keycloak", stages) /\ UNCHANGED <<store, job>>
    BY Zenon, <1>3 DEF Login, Making, providers
  <2>2. Complete(Declared(job.gen)) /\ Declared(job.gen)' = Declared(job.gen)
    BY Zenon, <1>0, <2>1, WriteNumber
  <2>3. /\ stages \in Seq(Stage) /\ \A i \in 1..Len(stages) : stages[i] \in Fits("keycloak")
        /\ Covers(stages, "ensure", KeycloakKinds) /\ Covers(stages, "prune", KeycloakKinds \ {"profile"})
    BY Zenon, KeycloakList
  <2>4. KeycloakKinds \ (KeycloakKinds \ {"profile"}) \subseteq {"profile", "role"}
    BY Zenon
  <2> HIDE DEF stages
  <2>5. ASSUME NEW o \in Obj, InKeycloak(o)
        PROVE  Coming(o)'
    <3>1. Kind[o] \in KeycloakKinds /\ "keycloak" \in {"keycloak", "vault"}
      BY Zenon, <2>5, KindsApart
    <3> QED
      BY Zenon, <2>1, <2>2, <2>3, <2>4, <3>1, EntersWhole
  <2>6. pc' = "keycloak"
    BY Zenon, <2>1 DEF Enter
  <2> QED
    BY Zenon, <2>5, <2>6 DEF ApplyInv, InKeycloak
<1>4. CASE LoginFails
  BY Zenon, <1>02, <1>4 DEF LoginFails
<1>5. CASE ReadToken
  <2> DEFINE stages == Stages("ensure", VaultEnsure) \o Stages("prune", VaultPrune)
  <2>1. CASE Enter("vault", stages) /\ UNCHANGED <<job, result>>
    <3>1. pc = "token" /\ UNCHANGED <<store, tampered>>
      BY Zenon, <1>5 DEF ReadToken, providers
    <3>2. Complete(Declared(job.gen)) /\ Declared(job.gen)' = Declared(job.gen)
      BY Zenon, <1>0, <2>1, <3>1, WriteNumber DEF Making
    <3>3. /\ stages \in Seq(Stage) /\ \A i \in 1..Len(stages) : stages[i] \in Fits("vault")
          /\ Covers(stages, "ensure", VaultKinds) /\ Covers(stages, "prune", VaultKinds \ {"role"})
      BY Zenon, VaultList
    <3>4. VaultKinds \ (VaultKinds \ {"role"}) \subseteq {"profile", "role"}
      BY Zenon
    <3> HIDE DEF stages
    <3>5. ASSUME NEW o \in Obj, ~InKeycloak(o)
          PROVE  Coming(o)'
      <4>1. Kind[o] \in VaultKinds /\ "vault" \in {"keycloak", "vault"}
        BY Zenon, <3>5, KindsApart
      <4> QED
        BY Zenon, <2>1, <3>1, <3>2, <3>3, <3>4, <4>1, EntersWhole
    <3>6. pc' = "vault"
      BY Zenon, <2>1 DEF Enter
    <3>7. \A o : Applied(o) => Applied(o)'
      BY Zenon, <2>1, <3>1, <3>2 DEF Applied, Owned
    <3> QED
      BY Zenon, <2>1, <3>1, <3>5, <3>6, <3>7 DEF ApplyInv, InKeycloak
  <2> QED
    BY Zenon, <1>02, <1>5, <2>1 DEF ReadToken
<1>6. ASSUME NEW o \in Obj, Look(o)
      PROVE  ApplyInv'
  <2>1. CASE UNCHANGED <<pc, job, work, left, result>>
    BY Zenon, <1>0, <1>6, <2>1, ApplyKept DEF Look, providers
  <2> QED
    BY Zenon, <1>02, <1>6, <2>1 DEF Look
<1>7. CASE Write
  <2>1. CASE Accepted(seen.name, seen.was) /\ ~Blocked(seen.name)
    <3>1. job' = job
      BY Zenon, <1>7, <2>1 DEF Write
    <3>2. /\ UNCHANGED <<pc, job, result, tampered>>
          /\ \A p \in Obj : (Applied(p) => Applied(p)') /\ (Coming(p) => Coming(p)')
      BY Zenon, <1>0, <1>7, <2>1, <3>1, WriteApplies
    <3> QED
      BY Zenon, <3>2 DEF ApplyInv, InKeycloak
  <2> QED
    BY Zenon, <1>02, <1>7, <2>1 DEF Write
<1>8. CASE WriteFails
  BY Zenon, <1>02, <1>8 DEF WriteFails
<1>9. ASSUME NEW o \in Obj, Delete(o) \/ DeleteFails(o)
      PROVE  ApplyInv'
  <2>0. Pruning /\ o \in left /\ UNCHANGED tampered /\ pc \in Staged
    BY Zenon, <1>04, <1>9 DEF Delete, DeleteFails, Pruning
  <2>1. PICK v : /\ AfterDelete(o, v)
                 /\ v = "ready" => Delete(o) /\ Refusal(o) = "ready"
    <3>1. "transient" # "ready"
      BY Zenon
    <3> QED
      BY Zenon, <1>9, <3>1 DEF Delete, DeleteFails
  <2>2. CASE ~(v = "ready" \/ InKeycloak(o))
    BY Zenon, <2>1, <2>2, ApplyFails DEF AfterDelete
  <2>3. CASE (v = "ready" \/ InKeycloak(o)) /\ pc \in {"cleanKeycloak", "cleanVault"}
    <3>1. pc' = pc
      BY Zenon, <2>1, <2>3 DEF AfterDelete
    <3> QED
      BY Zenon, <2>3, <3>1, ApplyElsewhere
  <2>4. CASE v # "ready" /\ InKeycloak(o) /\ pc \notin {"cleanKeycloak", "cleanVault"}
    <3>1. pc = "keycloak"
      BY Zenon, <2>0, <2>4, InHand DEF Staged
    <3>2. pc' = pc /\ result' = [result EXCEPT !.keycloak = v]
      BY Zenon, <2>1, <2>4 DEF AfterDelete
    <3>3. result'.keycloak = v
      BY Zenon, <3>2 DEF ServerInv, Results
    <3> QED
      BY Zenon, <2>4, <3>1, <3>2, <3>3 DEF ApplyInv
  <2>5. CASE v = "ready" /\ pc \in {"keycloak", "vault"}
    <3>1. Delete(o) /\ Refusal(o) = "ready"
      BY Zenon, <2>1, <2>5
    <3>2. left' = left \ {o} /\ UNCHANGED <<pc, job, work, result>>
      BY Zenon, <2>1, <2>5 DEF AfterDelete
    <3>3. \A p \in Obj : (Applied(p) => Applied(p)') /\ (Coming(p) => Coming(p)')
      BY Zenon, <1>0, <2>5, <3>1, <3>2, PruneApplies
    <3> QED
      BY Zenon, <2>0, <3>2, <3>3 DEF ApplyInv, InKeycloak
  <2> QED
    BY Zenon, <2>0, <2>2, <2>3, <2>4, <2>5 DEF Staged
<1>10. CASE Advance
  <2>0. work # <<>> /\ left = {} /\ pc \in Staged /\ UNCHANGED <<store, tampered>>
    BY Zenon, <1>04, <1>10 DEF Advance, providers
  <2>1. CASE pc = "keycloak" /\ result.keycloak # "ready"
    BY Zenon, <1>10, <2>1, ApplyFails DEF Advance
  <2>2. CASE ~(pc = "keycloak" /\ result.keycloak # "ready")
    <3>1. /\ work' = Remaining /\ left' = IF Remaining = <<>> THEN {} ELSE Listing(Head(Remaining))
          /\ job' = job
          /\ IF Remaining = <<>> THEN Finished ELSE UNCHANGED <<pc, result>>
      BY Zenon, <1>10, <2>2 DEF Advance
    <3>2. \A o \in Obj : Coming(o) => Coming(o)' /\ (Remaining = <<>> => Applied(o)')
      BY Zenon, <1>0, <2>0, <3>1, ComingAdvances
    <3>3. \A o : Applied(o) => Applied(o)'
      BY Zenon, <1>0, <2>0, <3>1 DEF Applied, Owned
    <3>4. CASE Remaining # <<>>
      <4>1. UNCHANGED <<pc, result>> /\ pc # "record"
        BY Zenon, <2>0, <3>1, <3>4 DEF Staged
      <4> QED
        BY Zenon, <2>0, <3>2, <3>3, <4>1 DEF ApplyInv, InKeycloak
    <3>5. CASE Remaining = <<>> /\ pc = "keycloak"
      <4>1. pc' = "token" /\ UNCHANGED result
        BY Zenon, <3>1, <3>5 DEF Finished
      <4> QED
        BY Zenon, <2>0, <2>2, <3>2, <3>5, <4>1 DEF ApplyInv, InKeycloak
    <3>6. CASE Remaining = <<>> /\ pc = "vault"
      <4>1. pc' = "record"
        BY Zenon, <3>1, <3>6 DEF Finished
      <4>2. ~tampered => \A o \in Obj : Applied(o)'
        BY Zenon, <3>2, <3>3, <3>6 DEF ApplyInv
      <4> QED
        BY Zenon, <2>0, <4>1, <4>2 DEF ApplyInv
    <3>7. CASE Remaining = <<>> /\ pc \in {"cleanKeycloak", "cleanVault"}
      <4>1. pc' \in {"cleanToken", "unfinalize", "record"}
        BY Zenon, <3>1, <3>7 DEF Finished
      <4>2. job'.deleted
        BY Zenon, <3>1, <3>7 DEF FinInv, Cleaning
      <4> QED
        BY Zenon, <4>1, <4>2, ApplyElsewhere, ApplyDeleted
    <3> QED
      BY Zenon, <2>0, <3>4, <3>5, <3>6, <3>7 DEF Staged
  <2> QED
    BY Zenon, <2>1, <2>2
<1>11. CASE ListFails
  <2>1. CASE pc = "cleanKeycloak" /\ pc' = pc
    BY Zenon, <2>1, ApplyElsewhere
  <2> QED
    BY Zenon, <1>02, <1>11, <2>1 DEF ListFails
<1>12. ASSUME NEW ca, NEW credentials, FinalizeKeycloak(ca, credentials)
       PROVE  ApplyInv'
  <2>1. pc' \in {"cleanKeycloak", "cleanToken"}
    BY Zenon, <1>12 DEF FinalizeKeycloak, Enter
  <2> QED
    BY Zenon, <2>1, ApplyElsewhere
<1>13. ASSUME NEW t, FinalizeVault(t)
       PROVE  ApplyInv'
  <2>1. CASE FailWith("transient")
    BY Zenon, <1>02, <2>1
  <2>2. CASE ~FailWith("transient")
    <3>1. pc = "cleanToken" /\ job' = job /\ pc' \in {"cleanVault", "unfinalize", "record"}
      BY Zenon, <1>13, <2>2 DEF FinalizeVault, Enter, Finished
    <3>2. job'.deleted
      BY Zenon, <3>1 DEF FinInv, Cleaning
    <3> QED
      BY Zenon, <3>1, <3>2, ApplyElsewhere, ApplyDeleted
  <2> QED
    BY Zenon, <2>1, <2>2
<1>14. CASE Specify \/ DeleteObject \/ Deliver \/ TimerFires \/ UNCHANGED vars
  BY Zenon, <1>03, <1>14 DEF Specify, DeleteObject, Deliver, TimerFires, vars, providers
<1>15. ASSUME NEW o \in Obj, Meddle(o) \/ Repair(o)
       PROVE  ApplyInv'
  <2>1. UNCHANGED <<pc, result>> /\ tampered' = (pc # "idle")
    BY Zenon, <1>15 DEF Meddle, Repair, workerVars
  <2> QED
    BY Zenon, <2>1 DEF ApplyInv
<1>16. ASSUME NEW x \in Sources, Lose(x) \/ Supply(x)
       PROVE  ApplyInv'
  BY Zenon, <1>03, <1>16 DEF Lose, Supply
<1> QED
  BY ZenonT(30), <1>1, <1>2, <1>3, <1>4, <1>5, <1>6, <1>7, <1>8, <1>9, <1>10, <1>11, <1>12, <1>13, <1>14,
     <1>15, <1>16 DEF Next, Worker, Environment

-----------------------------------------------------------------------------
(* Objects of others, and the theorems *)

(* What a look reports is never foreign, and no role is. *)
Markers ==
  /\ store \in [Obj -> Int] /\ seen.was # Foreign
  /\ \A o \in Obj : Kind[o] = "role" => store[o] # Foreign

(* Ending an attempt, or a stage of it, forgets what was seen. *)
LEMMA Forgets ==
  /\ Unseen.was # Foreign
  /\ AtRest => seen'.was # Foreign
  /\ \A v : FailWith(v) => seen'.was # Foreign
  /\ \A step, stages : Enter(step, stages) => seen'.was # Foreign
<1>1. Unseen.was # Foreign
  BY SMTT(30) DEF Unseen, Absent, Foreign
<1> QED
  BY Zenon, <1>1 DEF AtRest, FailWith, Conclude, Enter

(* What a removal takes besides its object is owned, or is a role. *)
LEMMA WithoutKeeps ==
  ASSUME Markers, NEW o \in Obj
  PROVE  /\ Without(o) \in [Obj -> Int]
         /\ \A p \in Obj \ {o} : store[p] = Foreign => Without(o)[p] = Foreign
         /\ \A p \in Obj : Kind[p] = "role" => Without(o)[p] # Foreign
BY DEF Markers, Without, Owned, Absent, Foreign, Partial

(* A foreign object that changes was hit by a write by name. *)
Spared ==
  \A o \in Obj : store[o] = Foreign /\ store'[o] # Foreign
                   => /\ seen.name = o /\ seen.was # Foreign
                      /\ ByName(o, seen.was)

(* A step that leaves the providers alone spares everything. *)
LEMMA Untouched ==
  ASSUME Markers, UNCHANGED store, seen' = seen \/ seen'.was # Foreign
  PROVE  Markers' /\ Spared
BY DEF Markers, Spared

(* A write that the provider accepts hits a foreign object only by name. *)
LEMMA WriteSpares ==
  ASSUME Markers, NEW g \in Nat, store' = [store EXCEPT ![seen.name] = g],
         Accepted(seen.name, seen.was), seen' = seen \/ seen'.was # Foreign
  PROVE  Markers' /\ Spared
<1>1. store' \in [Obj -> Int]
  <2>1. store \in [Obj -> Int] /\ g \in Int
    BY DEF Markers
  <2> QED
    BY Zenon, <2>1
<1>2. \A o \in Obj : Kind[o] = "role" => store'[o] # Foreign
  BY DEF Markers, Foreign
<1>3. Spared
  <2> SUFFICES ASSUME NEW o \in Obj, store[o] = Foreign, store'[o] # Foreign
               PROVE  seen.name = o /\ seen.was # Foreign /\ ByName(o, seen.was)
    BY DEF Spared
  <2>1. seen.name = o /\ seen.was # Foreign
    BY DEF Markers
  <2>2. store[o] # Absent /\ ~Owned(o)
    BY DEF Owned, Absent, Foreign, Partial
  <2> QED
    BY <2>1, <2>2 DEF Accepted
<1> QED
  BY <1>1, <1>2, <1>3 DEF Markers

LEMMA MarkersStep ==
  ASSUME ServerInv, Markers, [Next]_vars
  PROVE  Markers' /\ (workerVars' # workerVars => Spared)
<1>0. Markers /\ job.gen \in Nat
  <2>1. job.gen \in 0..MaxGen
    BY Zenon DEF ServerInv, Config
  <2> QED
    BY SMTT(30), <2>1, Numbers
<1>1. CASE Start \/ AddFinalizer \/ Unfinalize \/ Record \/ PatchFails \/ Crash
  BY ZenonT(30), <1>0, <1>1, Forgets, Untouched
     DEF Start, AddFinalizer, Unfinalize, Record, PatchFails, Crash, providers
<1>2. CASE Login \/ LoginFails \/ ReadToken
  BY ZenonT(30), <1>0, <1>2, Forgets, Untouched DEF Login, LoginFails, ReadToken, providers
<1>3. ASSUME NEW o \in Obj, Look(o)
      PROVE  Markers' /\ Spared
  <2>1. CASE store[o] = Foreign
    BY ZenonT(30), <1>0, <1>3, <2>1, Forgets, Untouched DEF Look, providers
  <2>2. CASE store[o] # Foreign
    BY SMTT(30), <1>0, <1>3, <2>2, Untouched DEF Look, providers
  <2> QED
    BY ZenonT(30), <2>1, <2>2
<1>4. CASE Write
  <2>1. seen' = seen \/ seen'.was # Foreign
    BY ZenonT(30), <1>4, Forgets DEF Write
  <2>2. CASE ~Accepted(seen.name, seen.was)
    BY ZenonT(30), <1>0, <1>4, <2>1, <2>2, Untouched DEF Write
  <2>3. CASE Accepted(seen.name, seen.was)
    <3>1. PICK g \in Nat : store' = [store EXCEPT ![seen.name] = g]
      BY Zenon, <1>0, <1>4, <2>3 DEF Write, Partial
    <3> QED
      BY Zenon, <1>0, <2>1, <2>3, <3>1, WriteSpares
  <2> QED
    BY ZenonT(30), <2>2, <2>3
<1>5. CASE WriteFails
  <2>1. seen'.was # Foreign
    BY <1>5, Forgets DEF WriteFails
  <2>2. CASE UNCHANGED store
    BY ZenonT(30), <1>0, <2>1, <2>2, Untouched
  <2>3. CASE /\ Accepted(seen.name, seen.was)
             /\ \E s \in {Partial, job.gen} : store' = [store EXCEPT ![seen.name] = s]
    <3>1. PICK g \in Nat : store' = [store EXCEPT ![seen.name] = g]
      BY Zenon, <1>0, <2>3 DEF Partial
    <3> QED
      BY Zenon, <1>0, <2>1, <2>3, <3>1, WriteSpares
  <2> QED
    BY ZenonT(30), <1>5, <2>2, <2>3 DEF WriteFails
<1>6. ASSUME NEW o \in Obj, Delete(o) \/ DeleteFails(o)
      PROVE  Markers' /\ Spared
  <2>1. seen' = seen \/ seen'.was # Foreign
    BY <1>6, Forgets DEF Delete, DeleteFails, AfterDelete
  <2>2. CASE UNCHANGED store
    BY ZenonT(30), <1>0, <2>1, <2>2, Untouched
  <2>3. CASE Owned(o) /\ store' = Without(o)
    BY SMTT(30), <1>0, <2>1, <2>3, WithoutKeeps DEF Markers, Spared, Owned, Foreign, Partial
  <2>4. ASSUME NEW p \in Of("role"), store' = [store EXCEPT ![p] = Absent]
        PROVE  Markers' /\ Spared
    BY SMTT(30), <1>0, <2>1, <2>4 DEF Markers, Spared, Of, Absent, Foreign
  <2> QED
    BY ZenonT(30), <1>6, <2>2, <2>3, <2>4 DEF Delete, DeleteFails
<1>7. CASE Advance \/ ListFails
  BY ZenonT(30), <1>0, <1>7, Forgets, Untouched DEF Advance, ListFails, providers
<1>8. ASSUME NEW ca, NEW credentials, FinalizeKeycloak(ca, credentials)
      PROVE  Markers' /\ Spared
  BY ZenonT(30), <1>0, <1>8, Forgets, Untouched DEF FinalizeKeycloak, providers
<1>9. ASSUME NEW token, FinalizeVault(token)
      PROVE  Markers' /\ Spared
  BY ZenonT(30), <1>0, <1>9, Forgets, Untouched DEF FinalizeVault, providers
<1>10. CASE Deliver \/ TimerFires \/ Specify \/ DeleteObject
  BY ZenonT(30), <1>0, <1>10, Untouched DEF Deliver, TimerFires, Specify, DeleteObject, providers,
     workerVars
<1>11. ASSUME NEW o \in Obj, Meddle(o) \/ Repair(o)
       PROVE  Markers' /\ UNCHANGED workerVars
  BY SMTT(30), <1>0, <1>11, WithoutKeeps DEF Meddle, Repair, Markers, workerVars, Absent, Foreign
<1>12. ASSUME NEW s \in Sources, Lose(s) \/ Supply(s)
       PROVE  Markers' /\ Spared
  BY ZenonT(30), <1>0, <1>12, Untouched DEF Lose, Supply, workerVars
<1>13. CASE UNCHANGED vars
  BY ZenonT(30), <1>0, <1>13, Untouched DEF vars, providers, workerVars
<1> QED
  BY ZenonT(30), <1>1, <1>2, <1>3, <1>4, <1>5, <1>6, <1>7, <1>8, <1>9, <1>10, <1>11, <1>12, <1>13
     DEF Next, Worker, Environment


(***************************************************************************)
(* The invariant of the operator                                           *)
(***************************************************************************)
OperatorInv ==
  /\ WorkInv /\ ServerInv /\ GenInv /\ FinInv
  /\ StoreInv /\ SweepInv /\ FinalizerGuards /\ ApplyInv /\ Markers

LEMMA OperatorInit == Init => OperatorInv
<1> SUFFICES ASSUME Init
             PROVE  OperatorInv
  OBVIOUS
<1>0. /\ pc = "idle" /\ work = <<>> /\ left = {} /\ seen = Unseen /\ intent = <<>> /\ nested = {}
      /\ object = Gone /\ cache = Gone /\ job = Gone /\ store = [o \in Obj |-> Absent]
      /\ session = Bootstrap /\ result = NoResult
  BY Zenon DEF Init
<1>1. "idle" \in Steps /\ "idle" \notin Staged /\ "idle" \notin Making /\ "idle" \notin Cleaning
  BY Zenon DEF Steps, Staged, Making, Cleaning
<1>2. WorkInv
  <2>1. <<>> \in Seq(Stage) /\ Len(<<>>) = 0
    BY Zenon, EmptySeq
  <2>2. 2..0 = {}
    BY SMTT(30)
  <2> QED
    BY Zenon, <1>0, <1>1, <2>1, <2>2 DEF WorkInv
<1>3. ServerInv
  <2>1. Gone \in Config /\ NoResult \in Results
    BY Zenon, GoneFits
  <2>2. <<>> \in Seq(Declarations) /\ Len(<<>>) = 0
    BY Zenon, EmptySeq
  <2>3. 0 <= MaxGen
    BY SMTT(30), Numbers
  <2>4. DOMAIN << >> = {}
    BY SMTT(30)
  <2> QED
    BY Zenon, <1>0, <2>1, <2>2, <2>3, <2>4 DEF ServerInv
<1>4. ~Gone.exists /\ ~Gone.deleted /\ ~Gone.finalizer /\ Gone.gen = 0
  BY Zenon, GoneFits, UpdateFields
<1>5. GenInv
  <2>1. 0 \in 0..Len(<<>>)
    BY SMTT(30)
  <2> QED
    BY Zenon, <1>0, <1>1, <1>4, <2>1 DEF GenInv, Dated
<1>6. FinInv
  BY Zenon, <1>0, <1>1, <1>4 DEF FinInv
<1>7. \A o \in Obj : store[o] = Absent /\ ~Owned(o)
  <2>1. \A o \in Obj : store[o] = Absent
    BY Zenon, <1>0
  <2> QED
    BY Zenon, <2>1, MarkFacts DEF Owned
<1>8. StoreInv
  <2>1. store \in [Obj -> Marks]
    BY Zenon, <1>0, MarkFacts
  <2>2. ~(\E r \in Of("role") : Owned(r))
    BY Zenon, <1>7 DEF Of
  <2> QED
    BY Zenon, <1>0, <2>1, <2>2 DEF StoreInv
<1>9. SweepInv /\ ApplyInv
  BY Zenon, <1>0 DEF SweepInv, ApplyInv
<1>10. FinalizerGuards
  BY Zenon, <1>7 DEF FinalizerGuards
<1>11. Markers
  <2>1. Absent \in Int /\ Absent # Foreign
    BY SMTT(30) DEF Absent, Foreign
  <2>2. store \in [Obj -> Int]
    BY Zenon, <1>0, <2>1
  <2> QED
    BY Zenon, <1>0, <1>7, <2>1, <2>2, Forgets DEF Markers
<1> QED
  BY Zenon, <1>2, <1>3, <1>5, <1>6, <1>8, <1>9, <1>10, <1>11 DEF OperatorInv

LEMMA OperatorStep == OperatorInv /\ [Next]_vars => OperatorInv'
<1> SUFFICES ASSUME OperatorInv, [Next]_vars
             PROVE  OperatorInv'
  OBVIOUS
<1>0. WorkInv /\ ServerInv /\ GenInv /\ FinInv /\ StoreInv /\ SweepInv /\ FinalizerGuards /\ ApplyInv /\ Markers
  BY Zenon DEF OperatorInv
<1>1. WorkInv' /\ ServerInv' /\ GenInv' /\ FinInv'
  BY Zenon, <1>0, WorkStep, ServerStep, GenStep, FinStep
<1>2. StoreInv' /\ SweepInv' /\ FinalizerGuards'
  BY Zenon, <1>0, StoreStep, SweepStep, GuardsStep
<1>3. ApplyInv' /\ Markers'
  BY Zenon, <1>0, ApplyStep, MarkersStep
<1> QED
  BY Zenon, <1>1, <1>2, <1>3 DEF OperatorInv

LEMMA OperatorAlways == Spec => []OperatorInv
BY OperatorInit, OperatorStep, PTL DEF Spec

(***************************************************************************)
(* Reconcile, finalize and the environment keep every variable in its      *)
(* type: generations and failure counts stay in their ranges, and what     *)
(* is noted as containing something foreign carries Atum's marker.         *)
(***************************************************************************)
THEOREM OperatorTypes == Spec => []TypeOK
<1>1. OperatorInv => TypeOK
  <2> SUFFICES ASSUME OperatorInv
               PROVE  TypeOK
    OBVIOUS
  <2>0. WorkInv /\ ServerInv /\ StoreInv
    BY Zenon DEF OperatorInv
  <2>1. {object, cache, job} \subseteq Config
    BY Zenon, <2>0 DEF ServerInv
  <2>2. left \subseteq Obj
    BY Zenon, <2>0 DEF WorkInv, Of
  <2>3. nested \subseteq {o \in Obj : Owned(o)}
    BY Zenon, <2>0 DEF StoreInv
  <2>4. store \in [Obj -> {Absent, Foreign, Partial} \cup Gen]
    BY Zenon, <2>0 DEF StoreInv, Marks
  <2> QED
    BY Zenon, <2>0, <2>1, <2>2, <2>3, <2>4 DEF TypeOK, ServerInv, StoreInv, Config, Status, Results
<1> QED
  BY <1>1, OperatorAlways, PTL

(***************************************************************************)
(* While an object with Atum's marker is left in Keycloak or Vault its     *)
(* configuration is too, with the finalizer, unless finalize had to leave  *)
(* a provider out: across crashes of the operator, stale reads of the      *)
(* cache, failed patches and deletions at any moment.                      *)
(***************************************************************************)
THEOREM FinalizerAlwaysGuards == Spec => []FinalizerGuards
<1>1. OperatorInv => FinalizerGuards
  BY Zenon DEF OperatorInv
<1> QED
  BY <1>1, OperatorAlways, PTL

(***************************************************************************)
(* A reconciliation that is about to record Ready has made the providers   *)
(* what its specification declares: every declared object was written for  *)
(* its generation and no other carries the marker, whichever of its calls  *)
(* failed half way, as long as nobody else wrote to the providers.         *)
(***************************************************************************)
THEOREM ReadyAlwaysApplied == Spec => []ReadyMeansApplied
<1>1. OperatorInv => ReadyMeansApplied
  BY Zenon DEF OperatorInv, ApplyInv, ReadyMeansApplied, Applied
<1> QED
  BY <1>1, OperatorAlways, PTL

(***************************************************************************)
(* Keycloak and Vault objects without Atum's marker are neither changed    *)
(* nor removed by upsert, pruneCollection or finalize, whatever fails,     *)
(* except by a write by name that looked before the object was made.       *)
(***************************************************************************)
THEOREM ForeignObjectsKept == Spec => ForeignKept
<1>1. OperatorInv /\ [Next]_vars =>
        [workerVars' # workerVars => \A o \in Obj : store[o] = Foreign /\ store'[o] # Foreign
                                           => /\ seen.name = o /\ seen.was # Foreign
                                              /\ ByName(o, seen.was)]_vars
  BY ZenonT(30), MarkersStep DEF Spared, OperatorInv
<1> QED
  BY <1>1, OperatorAlways, PTL DEF Spec, ForeignKept
=============================================================================
