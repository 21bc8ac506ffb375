--------------------------- MODULE IdentityOperator ---------------------------
(***************************************************************************)
(* The identity operator (operator/internal): one worker that brings the    *)
(* marked objects of Keycloak and Vault to what the singleton               *)
(* PlatformIdentityConfiguration declares, records the outcome in its       *)
(* status and, before the object may go, removes what it made.              *)
(*                                                                         *)
(* A provider object is Absent, Foreign (it lacks the ownership marker),    *)
(* Partial (marked, but some of its dependent writes are missing: the       *)
(* password and role of a user, the scopes and mappers of a client) or the  *)
(* number of the intent it was last completely written for.  Intents are    *)
(* numbered over the life of the name, also when the object is recreated.   *)
(***************************************************************************)
EXTENDS Integers, Sequences, FiniteSets

CONSTANTS Obj,            \* names of provider objects
          Kind,           \* [Obj -> Kinds]
          Intents,        \* Intents[g]: what the g-th specification may declare
          FailureCap,     \* the value FailureCount saturates at (6 in the code)
          MaxTroubles     \* failing calls, meddling, lost Secrets and crashes together

KeycloakEnsure == <<"profile", "user", "group", "scope", "client">>
KeycloakPrune  == <<"client", "user", "group", "scope">>
KeycloakClean  == <<"client", "group", "scope", "user">>
VaultEnsure    == <<"mount", "policy", "role", "extgroup", "alias">>
VaultPrune     == <<"alias", "extgroup", "policy", "mount">>
Kinds == {KeycloakEnsure[i] : i \in 1..5} \cup {VaultEnsure[i] : i \in 1..5}
InKeycloak(o) == Kind[o] \in {KeycloakEnsure[i] : i \in 1..5}

MaxGen == Len(Intents)
Malformed == {"malformed"}   \* a URI outside the platform domain

(* Keycloak.Reconcile and Vault.Reconcile write the profile, the mount and  *)
(* the role of every intent, and an alias only beside its external group.   *)
Complete(i) ==
  \A o \in Obj \ i : /\ Kind[o] \notin {"profile", "mount", "role"}
                     /\ Kind[o] = "extgroup" => \A p \in i : Kind[p] # "alias"

ASSUME OperatorAssumption ==
  /\ Kind \in [Obj -> Kinds]
  /\ \A k \in {"profile", "mount", "role", "extgroup", "alias"} : Cardinality({o \in Obj : Kind[o] = k}) <= 1
  /\ Intents \in Seq(SUBSET (SUBSET Obj \cup {Malformed}))
  /\ \A g \in 1..MaxGen : \A i \in Intents[g] : i = Malformed \/ Complete(i)
  /\ {FailureCap, MaxTroubles} \subseteq Nat

Absent == -2
Foreign == -1
Partial == 0
Gen == 1..MaxGen
Sources == {"ca", "credentials", "token"}
Bootstrap == "bootstrap"
Verdicts == {"none", "ready", "transient", "conflict", "dependency", "invalid"}

VARIABLES object,     \* the PlatformIdentityConfiguration in the API server
          cache,      \* the informer's copy, which Get reads
          intent,     \* what each numbered specification declares
          queue,      \* a request is queued
          timer,      \* a delayed request is pending
          store,      \* the objects of Keycloak and Vault
          nested,     \* owned objects that hold a foreign mapper, alias or role
          sources,    \* the credential Secrets that exist
          pc, job,    \* the worker: its step, and the object it read
          work, left, \* stages still to do, objects of the first one
          seen,       \* what the write in progress found under its name
          session,    \* the account the Keycloak token belongs to
          trust,      \* how the CA was read at the start of a cleanup
          result,     \* verdicts for Keycloak and Vault
          skipped,    \* this cleanup left a provider out: its credentials are gone
          orphaned,   \* a finalizer was removed after such a cleanup
          tampered,   \* somebody else changed the providers during this attempt
          troubles    \* how many have happened

server == <<object, intent>>
inbox == <<cache, queue, timer>>
providers == <<store, nested, sources>>
workerVars == <<pc, job, work, left, seen, session, trust, result, skipped>>
vars == <<server, inbox, providers, workerVars, orphaned, tampered, troubles>>

NoStatus == [observed |-> 0, failures |-> 0,
             conds |-> [gen |-> 0, keycloak |-> "none", vault |-> "none"]]
Gone == [exists |-> FALSE, gen |-> 0, deleted |-> FALSE, finalizer |-> FALSE, status |-> NoStatus]
NoResult == [keycloak |-> "none", vault |-> "none"]
Unseen == [name |-> "none", was |-> Absent]

Owned(o) == store[o] >= Partial
Of(kind) == {o \in Obj : Kind[o] = kind}
Ready(conds) == conds.keycloak = "ready" /\ conds.vault = "ready"
Terminal(conds) == {conds.keycloak, conds.vault} \cap {"conflict", "invalid"} # {}

-----------------------------------------------------------------------------
(* What the worker does next *)

Stages(op, kinds) == [i \in 1..Len(kinds) |-> [op |-> op, kind |-> kinds[i]]]
Declared(g) == IF g \in DOMAIN intent /\ intent[g] # Malformed THEN intent[g] ELSE {}

(* The objects a stage handles: the declared ones of its kind, or, from the *)
(* listing of the collection, the marked ones that are not to be kept.      *)
Listing(stage) ==
  IF stage.op = "ensure"
  THEN Of(stage.kind) \cap Declared(job.gen)
  ELSE {o \in Of(stage.kind) :
          \/ Owned(o) /\ (stage.op = "clean" \/ o \notin Declared(job.gen))
          \/ stage.kind = "profile" /\ store[o] = Foreign}

AtRest ==
  /\ pc' = "idle" /\ job' = Gone /\ work' = <<>> /\ left' = {} /\ seen' = Unseen
  /\ session' = Bootstrap /\ trust' = "none" /\ result' = NoResult /\ skipped' = FALSE
  /\ tampered' = FALSE
Enter(step, stages) ==
  pc' = step /\ work' = Stages("begin", <<"none">>) \o stages /\ left' = {} /\ seen' = Unseen
Conclude(verdicts) ==
  /\ pc' = "record" /\ work' = <<>> /\ left' = {} /\ seen' = Unseen /\ result' = verdicts
  /\ UNCHANGED <<job, session, trust, skipped>>

(* The first error of Keycloak keeps Vault from being tried; an error of    *)
(* Vault is recorded beside a ready Keycloak, or beside its cleanup.        *)
FailWith(v) ==
  Conclude(IF pc \in {"login", "keycloak"} THEN [keycloak |-> v, vault |-> "dependency"]
           ELSE [keycloak |-> result.keycloak, vault |-> v])

(* A call fails by chance, or because the account of its token is gone.     *)
Spend == troubles < MaxTroubles /\ troubles' = troubles + 1
LockedOut == /\ pc \in {"keycloak", "cleanKeycloak"} /\ session # Bootstrap
             /\ store[session] < Partial /\ UNCHANGED troubles
CallFails == Spend \/ LockedOut

-----------------------------------------------------------------------------
(* Reconcile *)

Start ==
  /\ pc = "idle" /\ queue
  /\ queue' = FALSE
  /\ IF ~cache.exists \/ (cache.deleted /\ ~cache.finalizer)
     THEN AtRest
     ELSE /\ job' = cache
          /\ pc' = IF cache.deleted THEN "finalize"
                   ELSE IF intent[cache.gen] = Malformed THEN "record"
                   ELSE IF ~cache.finalizer THEN "addFinalizer" ELSE "login"
          /\ result' = IF ~cache.deleted /\ intent[cache.gen] = Malformed
                       THEN [keycloak |-> "invalid", vault |-> "invalid"] ELSE NoResult
          /\ UNCHANGED <<work, left, seen, session, trust, skipped, tampered>>
  /\ UNCHANGED <<server, cache, timer, providers, orphaned, troubles>>

(* A failed patch is retried, a successful one is followed by a new request.*)
AddFinalizer ==
  /\ pc = "addFinalizer"
  /\ \/ object' = [object EXCEPT !.finalizer = object.exists] /\ UNCHANGED troubles
     \/ Spend /\ UNCHANGED object
  /\ timer' = TRUE /\ AtRest
  /\ UNCHANGED <<intent, cache, queue, providers, orphaned>>

(* The account named by the credentials Secret, or else the bootstrap one.  *)
Accounts == UNION {IF store[u] \in Gen THEN {u} ELSE IF Owned(u) THEN {u, Bootstrap} ELSE {Bootstrap}
                   : u \in Of("user")}

Login ==
  /\ pc = "login" /\ {"ca", "credentials"} \subseteq sources
  /\ session' \in Accounts
  /\ Enter("keycloak", Stages("ensure", KeycloakEnsure) \o Stages("prune", KeycloakPrune))
  /\ result' = [NoResult EXCEPT !.keycloak = "ready"]
  /\ UNCHANGED <<server, inbox, providers, job, trust, skipped, orphaned, tampered, troubles>>

LoginFails ==
  /\ pc = "login"
  /\ \/ Spend
     \/ ~({"ca", "credentials"} \subseteq sources) /\ UNCHANGED troubles
  /\ FailWith("transient")
  /\ UNCHANGED <<server, inbox, providers, orphaned, tampered>>

ReadToken ==
  /\ pc = "token"
  /\ \/ /\ "token" \in sources /\ UNCHANGED troubles
        /\ Enter("vault", Stages("ensure", VaultEnsure) \o Stages("prune", VaultPrune))
        /\ UNCHANGED <<job, session, trust, result, skipped>>
     \/ /\ Spend \/ ("token" \notin sources /\ UNCHANGED troubles)
        /\ FailWith("transient")
  /\ UNCHANGED <<server, inbox, providers, orphaned, tampered>>

-----------------------------------------------------------------------------
(* Keycloak.upsert, Vault's ensure and upsert functions: look, then write   *)

Writing == pc \in {"keycloak", "vault"} /\ work # <<>> /\ Head(work).op = "ensure"

(* Mutant: an object without the marker is adopted. *)
MutantLook(o) ==
  /\ Writing /\ o \in left /\ seen = Unseen
  /\ seen' = [name |-> o, was |-> store[o]]
  /\ UNCHANGED <<pc, job, work, left, session, trust, result, skipped>>
  /\ UNCHANGED <<server, inbox, providers, orphaned, tampered, troubles>>

Look(o) ==
  /\ Writing /\ o \in left /\ seen = Unseen
  /\ IF store[o] = Foreign
     THEN FailWith("conflict")
     ELSE /\ seen' = [name |-> o, was |-> store[o]]
          /\ UNCHANGED <<pc, job, work, left, session, trust, result, skipped>>
  /\ UNCHANGED <<server, inbox, providers, orphaned, tampered, troubles>>

(* Writes that address their object by name replace what is there by then;  *)
(* the others fail when the object they saw has gone or one has appeared.   *)
WholeProfile(o) == Kind[o] = "profile"
ByName(o, was) == \/ WholeProfile(o) \/ Kind[o] \in {"policy", "role"}
                  \/ Kind[o] \in {"extgroup", "alias"} /\ was = Absent
Parents(o) == CASE Kind[o] = "role" -> {"mount"} [] Kind[o] = "alias" -> {"mount", "extgroup"} [] OTHER -> {}
Accepted(o, was) ==
  /\ ByName(o, was) \/ (was = Absent /\ store[o] = Absent) \/ (was # Absent /\ Owned(o))
  /\ \A k \in Parents(o) : \E p \in Of(k) : Owned(p)

(* A mapper of the wanted name that is not Atum's. *)
Blocked(o) == o \in nested /\ Kind[o] \in {"scope", "client"}

Write ==
  LET o == seen.name
      done == Accepted(o, seen.was)
  IN  /\ Writing /\ seen # Unseen
      /\ store' = IF done THEN [store EXCEPT ![o] = IF Blocked(o) THEN Partial ELSE job.gen] ELSE store
      /\ IF done /\ ~Blocked(o)
         THEN /\ left' = left \ {o} /\ seen' = Unseen
              /\ UNCHANGED <<pc, job, work, session, trust, result, skipped>>
         ELSE FailWith(IF done THEN "conflict" ELSE "transient")
      /\ UNCHANGED <<server, inbox, nested, sources, orphaned, tampered, troubles>>

(* A failing call of one upsert: nothing, a part or all of it took effect.  *)
WriteFails ==
  /\ Writing /\ (seen # Unseen \/ left # {}) /\ CallFails
  /\ \/ UNCHANGED store
     \/ /\ seen # Unseen /\ troubles' # troubles /\ Accepted(seen.name, seen.was)
        /\ \E s \in {Partial, job.gen} : store' = [store EXCEPT ![seen.name] = s]
  /\ FailWith("transient")
  /\ UNCHANGED <<server, inbox, nested, sources, orphaned, tampered>>

-----------------------------------------------------------------------------
(* pruneCollection, Vault's prune functions and cleanupMount                *)

Pruning == work # <<>> /\ Head(work).op \in {"prune", "clean"}

(* The role goes with its mount and the alias with its group; an alias that *)
(* loses its mount has to be written again.                                 *)
Without(o) ==
  [p \in Obj |->
     CASE p = o                                                      -> Absent
       [] Kind[o] = "mount" /\ Kind[p] = "role"                      -> Absent
       [] Kind[o] = "mount" /\ Kind[p] = "alias" /\ Owned(p)         -> Partial
       [] Kind[o] = "extgroup" /\ Kind[p] = "alias" /\ Owned(p)      -> Absent
       [] OTHER                                                      -> store[p]]

Refusal(o) ==
  CASE Kind[o] \in {"mount", "profile"} /\ store[o] = Foreign      -> "conflict"
    [] Kind[o] = "mount" /\ o \in nested                           -> "conflict"
    [] ~Owned(o) /\ Kind[o] \notin {"mount", "profile", "policy"}  -> "transient"
    [] OTHER                                                       -> "ready"

(* Mutant: prune drops the error of a delete. *)
MutantAfterDelete(o, v) ==
  IF v = "ready" \/ InKeycloak(o)
  THEN /\ left' = left \ {o}
       /\ result' = IF v = "ready" \/ pc = "keycloak" THEN result ELSE [result EXCEPT !.keycloak = v]
       /\ UNCHANGED <<pc, job, work, seen, session, trust, skipped>>
  ELSE FailWith(v)

(* Keycloak's collections are pruned to the end and the errors joined;      *)
(* Vault stops at the first one.                                            *)
AfterDelete(o, v) ==
  IF v = "ready" \/ InKeycloak(o)
  THEN /\ left' = left \ {o}
       /\ result' = IF v = "ready" THEN result ELSE [result EXCEPT !.keycloak = v]
       /\ UNCHANGED <<pc, job, work, seen, session, trust, skipped>>
  ELSE FailWith(v)

Delete(o) ==
  /\ Pruning /\ o \in left
  /\ store' = IF Owned(o) /\ Refusal(o) = "ready" THEN Without(o) ELSE store
  /\ nested' = nested \ {p \in nested : store'[p] < Partial}
  /\ AfterDelete(o, Refusal(o))
  /\ UNCHANGED <<server, inbox, sources, orphaned, tampered, troubles>>

DeleteFails(o) ==
  /\ Pruning /\ o \in left /\ CallFails
  /\ \/ UNCHANGED store
     \/ /\ troubles' # troubles /\ Owned(o) /\ Refusal(o) = "ready"
        /\ store' \in {Without(o)} \cup
             {[store EXCEPT ![p] = Absent] : p \in IF Kind[o] = "mount" THEN Of("role") ELSE {}}
  /\ nested' = nested \ {p \in nested : store'[p] < Partial}
  /\ AfterDelete(o, "transient")
  /\ UNCHANGED <<server, inbox, sources, orphaned, tampered>>

-----------------------------------------------------------------------------
(* From one stage to the next *)

Least(S) == CHOOSE i \in S : \A j \in S : i <= j

(* The stages from the next one that has something to do; the ownership     *)
(* attribute of the profile is removed only after a cleanup without errors. *)
Remaining ==
  LET busy == {i \in 2..Len(work) :
                 /\ Listing(work[i]) # {}
                 /\ work[i] = [op |-> "clean", kind |-> "profile"] => result.keycloak = "ready"}
  IN  IF busy = {} THEN <<>> ELSE SubSeq(work, Least(busy), Len(work))

(* Mutant: only the errors of Vault keep the finalizer. *)
MutantFinished ==
  CASE pc = "keycloak" -> pc' = "token" /\ UNCHANGED result
    [] pc = "vault" -> pc' = "record" /\ result' = [result EXCEPT !.vault = "ready"]
    [] pc = "cleanKeycloak" -> pc' = "cleanToken" /\ UNCHANGED result
    [] OTHER -> pc' = "unfinalize" /\ UNCHANGED result

Finished ==
  CASE pc = "keycloak" -> pc' = "token" /\ UNCHANGED result
    [] pc = "vault" -> pc' = "record" /\ result' = [result EXCEPT !.vault = "ready"]
    [] pc = "cleanKeycloak" -> pc' = "cleanToken" /\ UNCHANGED result
    [] OTHER -> pc' = (IF result.keycloak = "ready" THEN "unfinalize" ELSE "record") /\ UNCHANGED result

Advance ==
  /\ work # <<>> /\ left = {} /\ seen = Unseen
  /\ IF pc = "keycloak" /\ result.keycloak # "ready"
     THEN FailWith(result.keycloak)
     ELSE /\ work' = Remaining
          /\ left' = IF Remaining = <<>> THEN {} ELSE Listing(Head(Remaining))
          /\ IF Remaining = <<>> THEN Finished ELSE UNCHANGED <<pc, result>>
          /\ UNCHANGED <<job, seen, session, trust, skipped>>
  /\ UNCHANGED <<server, inbox, providers, orphaned, tampered, troubles>>

(* The listing of a collection fails; a cleanup of Keycloak goes on with    *)
(* the collections after it.                                                *)
ListFails ==
  /\ work # <<>> /\ left = {} /\ seen = Unseen /\ CallFails
  /\ \E i \in 2..Len(work) :
       /\ work[i].op # "ensure" /\ \A j \in 2..(i - 1) : Listing(work[j]) = {}
       /\ IF pc = "cleanKeycloak"
          THEN /\ work' = SubSeq(work, i, Len(work)) /\ left' = {}
               /\ result' = [result EXCEPT !.keycloak = "transient"]
               /\ UNCHANGED <<pc, job, seen, session, trust, skipped>>
          ELSE FailWith("transient")
  /\ UNCHANGED <<server, inbox, providers, orphaned, tampered>>

-----------------------------------------------------------------------------
(* finalize *)

(* What reading a Secret gives; "error" also stands for a failed login.     *)
Readings(s) == {IF s \in sources THEN "ok" ELSE "gone", "error"}
Paid(readings) == IF "error" \in readings THEN Spend ELSE UNCHANGED troubles

(* A provider whose credentials are gone is left as it is. *)
FinalizeKeycloak(ca, credentials) ==
  /\ pc = "finalize" /\ Paid({ca, credentials})
  /\ trust' = ca
  /\ result' = [keycloak |-> IF "error" \in {ca, credentials} /\ "gone" \notin {ca, credentials}
                             THEN "transient" ELSE "ready",
                vault |-> "ready"]
  /\ skipped' = ("gone" \in {ca, credentials})
  /\ IF {ca, credentials} = {"ok"}
     THEN /\ Enter("cleanKeycloak", Stages("clean", KeycloakClean \o <<"profile">>))
          /\ session' \in Accounts
     ELSE pc' = "cleanToken" /\ UNCHANGED <<work, left, seen, session>>
  /\ UNCHANGED <<server, inbox, providers, job, orphaned, tampered>>

FinalizeVault(token) ==
  /\ pc = "cleanToken" /\ Paid({token})
  /\ \/ /\ {trust, token} = {"ok"}
        /\ Enter("cleanVault", Stages("clean", VaultPrune))
        /\ UNCHANGED <<job, session, trust, result, skipped>>
     \/ /\ "gone" \in {trust, token}
        /\ skipped' = TRUE
        /\ Finished
        /\ UNCHANGED <<job, work, left, seen, session, trust>>
     \/ /\ "error" \in {trust, token} /\ "gone" \notin {trust, token}
        /\ FailWith("transient")
  /\ UNCHANGED <<server, inbox, providers, orphaned, tampered>>

Unfinalize ==
  /\ pc = "unfinalize"
  /\ object' = IF object.deleted THEN Gone ELSE [object EXCEPT !.finalizer = FALSE]
  /\ orphaned' = (orphaned \/ skipped)
  /\ AtRest
  /\ UNCHANGED <<intent, inbox, providers, troubles>>

-----------------------------------------------------------------------------
(* recordAttempt: the status as a merge patch against the object that was   *)
(* read, so a field equal to the stale one is not written                   *)

(* Mutant: the failure count does not saturate. *)
MutantNewStatus ==
  [observed |-> job.gen, conds |-> [gen |-> job.gen, keycloak |-> result.keycloak, vault |-> result.vault],
   failures |-> IF Ready(result) THEN 0 ELSE job.status.failures + 1]

NewStatus ==
  LET conds == [gen |-> job.gen, keycloak |-> result.keycloak, vault |-> result.vault]
      before == IF job.status.observed # job.gen THEN 0 ELSE job.status.failures
  IN  [observed |-> job.gen, conds |-> conds,
       failures |-> IF Ready(conds) THEN 0 ELSE IF before < FailureCap THEN before + 1 ELSE before]
Patched == [f \in DOMAIN NoStatus |-> IF NewStatus[f] = job.status[f] THEN object.status[f] ELSE NewStatus[f]]

(* Mutant: a conflict met during cleanup is not retried either. *)
MutantRecord ==
  /\ pc = "record"
  /\ object' = IF object.exists THEN [object EXCEPT !.status = Patched] ELSE object
  /\ timer' = (timer \/ ~object.exists \/ ~Terminal(NewStatus.conds))
  /\ AtRest
  /\ UNCHANGED <<intent, cache, queue, providers, orphaned, troubles>>

Record ==
  /\ pc = "record"
  /\ object' = IF object.exists THEN [object EXCEPT !.status = Patched] ELSE object
  /\ timer' = (timer \/ ~object.exists \/ job.deleted \/ ~Terminal(NewStatus.conds))
  /\ AtRest
  /\ UNCHANGED <<intent, cache, queue, providers, orphaned, troubles>>

(* The patch of the status or of the finalizer fails: the request is        *)
(* retried by the work queue.                                               *)
PatchFails ==
  /\ pc \in {"record", "unfinalize"} /\ Spend
  /\ timer' = TRUE /\ AtRest
  /\ UNCHANGED <<server, cache, queue, providers, orphaned>>

-----------------------------------------------------------------------------
(* The informer and the work queue: every change of the object queues a     *)
(* request, a change of its status included                                 *)

(* The worker meets the API server only here; what happens to the object    *)
(* and to the queue in between is taken to happen at the next such point,   *)
(* and what happens to Secrets just before they are read.                   *)
AtServer == pc \in {"idle", "addFinalizer", "record", "unfinalize"}
AtSecrets == pc \in {"login", "token", "finalize", "cleanToken"}

Deliver ==
  /\ AtServer /\ cache # object
  /\ cache' = object /\ queue' = TRUE
  /\ UNCHANGED <<server, timer, providers, workerVars, orphaned, tampered, troubles>>

TimerFires ==
  /\ pc = "idle" /\ timer
  /\ timer' = FALSE /\ queue' = TRUE
  /\ UNCHANGED <<server, cache, providers, workerVars, orphaned, tampered, troubles>>

Crash ==
  /\ pc # "idle" /\ Spend
  /\ cache' = object /\ queue' = TRUE /\ timer' = FALSE /\ AtRest
  /\ UNCHANGED <<server, providers, orphaned>>

-----------------------------------------------------------------------------
(* The administrator, Flux and the providers' other users *)

Specify ==
  /\ AtServer /\ (object.exists => ~object.deleted)
  /\ Len(intent) < MaxGen
  /\ \E i \in Intents[Len(intent) + 1] : intent' = Append(intent, i)
  /\ object' = [object EXCEPT !.exists = TRUE, !.gen = Len(intent) + 1]
  /\ UNCHANGED <<inbox, providers, workerVars, orphaned, tampered, troubles>>

DeleteObject ==
  /\ AtServer /\ object.exists /\ ~object.deleted
  /\ object' = IF object.finalizer THEN [object EXCEPT !.deleted = TRUE] ELSE Gone
  /\ UNCHANGED <<intent, inbox, providers, workerVars, orphaned, tampered, troubles>>

Meddle(o) ==
  /\ Spend
  /\ \/ store' = Without(o) /\ store[o] # Absent /\ nested' = nested \ {o}
     \/ /\ store[o] = Absent /\ Kind[o] # "role"
        /\ store' = [store EXCEPT ![o] = Foreign] /\ UNCHANGED nested
     \/ /\ Owned(o) /\ Kind[o] \in {"scope", "client", "mount"}
        /\ nested' = nested \cup {o} /\ UNCHANGED store
  /\ tampered' = (pc # "idle")
  /\ UNCHANGED <<server, inbox, sources, workerVars, orphaned>>

(* Somebody removes a foreign object or child that is in the way. *)
Repair(o) ==
  /\ store[o] = Foreign \/ o \in nested
  /\ store' = IF store[o] = Foreign THEN [store EXCEPT ![o] = Absent] ELSE store
  /\ nested' = nested \ {o}
  /\ tampered' = (pc # "idle")
  /\ UNCHANGED <<server, inbox, sources, workerVars, orphaned, troubles>>

Lose(s) ==
  /\ AtSecrets /\ s \in sources /\ Spend
  /\ sources' = sources \ {s}
  /\ UNCHANGED <<server, inbox, store, nested, workerVars, orphaned, tampered>>

Supply(s) ==
  /\ AtSecrets /\ s \notin sources /\ sources' = sources \cup {s}
  /\ UNCHANGED <<server, inbox, store, nested, workerVars, orphaned, tampered, troubles>>

-----------------------------------------------------------------------------
Init ==
  /\ object = Gone /\ cache = Gone /\ intent = <<>>
  /\ queue = FALSE /\ timer = FALSE
  /\ store = [o \in Obj |-> Absent] /\ nested = {} /\ sources = Sources
  /\ pc = "idle" /\ job = Gone /\ work = <<>> /\ left = {} /\ seen = Unseen
  /\ session = Bootstrap /\ trust = "none" /\ result = NoResult /\ skipped = FALSE
  /\ orphaned = FALSE /\ tampered = FALSE
  /\ troubles = 0

Worker ==
  \/ Start \/ AddFinalizer \/ Login \/ LoginFails \/ ReadToken
  \/ \E o \in Obj : Look(o) \/ Delete(o) \/ DeleteFails(o)
  \/ Write \/ WriteFails \/ Advance \/ ListFails
  \/ \E ca \in Readings("ca"), credentials \in Readings("credentials") : FinalizeKeycloak(ca, credentials)
  \/ \E token \in Readings("token") : FinalizeVault(token)
  \/ Unfinalize \/ Record \/ PatchFails

Environment ==
  \/ Crash \/ Specify \/ DeleteObject
  \/ \E o \in Obj : Meddle(o) \/ Repair(o)
  \/ \E s \in Sources : Lose(s) \/ Supply(s)

Next == Worker \/ Deliver \/ TimerFires \/ Environment

Spec == Init /\ [][Next]_vars
FairSpec == /\ Spec /\ WF_vars(Worker) /\ SF_vars(Deliver) /\ SF_vars(TimerFires)
            /\ WF_vars(\E o \in Obj : Repair(o))

-----------------------------------------------------------------------------
(* Properties *)

TypeOK ==
  /\ {object, cache, job} \subseteq
       [exists : BOOLEAN, gen : 0..MaxGen, deleted : BOOLEAN, finalizer : BOOLEAN,
        status : [observed : 0..MaxGen, failures : 0..FailureCap,
                  conds : [gen : 0..MaxGen, keycloak : Verdicts, vault : Verdicts]]]
  /\ Len(intent) <= MaxGen /\ \A g \in DOMAIN intent : intent[g] \in Intents[g]
  /\ store \in [Obj -> {Absent, Foreign, Partial} \cup Gen]
  /\ nested \subseteq {o \in Obj : Owned(o)}
  /\ left \subseteq Obj
  /\ session \in {Bootstrap} \cup Of("user")
  /\ result \in [keycloak : Verdicts, vault : Verdicts]

(* An object without Atum's marker is neither changed nor removed by the    *)
(* operator, whatever fails; only a write by name can hit one that somebody *)
(* made after the operator had looked and found the name free or its own.   *)
ForeignKept ==
  [][workerVars' # workerVars => \A o \in Obj : store[o] = Foreign /\ store'[o] # Foreign
                                           => /\ seen.name = o /\ seen.was # Foreign
                                              /\ ByName(o, seen.was)]_vars

(* When a reconciliation is about to be recorded as ready, and nobody else  *)
(* touched the providers meanwhile, exactly the objects its specification   *)
(* declares carry the marker and every one was written for it.              *)
ReadyMeansApplied ==
  pc = "record" /\ Ready(result) /\ ~job.deleted /\ ~tampered
    => \A o \in Obj : IF o \in Declared(job.gen) THEN store[o] = job.gen ELSE ~Owned(o)

(* As long as a marked object exists its configuration does too, with the   *)
(* finalizer, unless a cleanup had to leave a provider out because its      *)
(* credentials had been removed before.                                     *)
FinalizerGuards == (\E o \in Obj : Owned(o)) /\ ~orphaned => object.exists /\ object.finalizer

(* A deleted configuration goes away, also after failing calls,    *)
(* lost Secrets and the removal of the very account the cleanup uses.       *)
DeletionCompletes == object.deleted ~> ~object.exists

(* A configuration that stays ends with a status of its own generation:     *)
(* ready, or a conflict, or waiting for a missing Secret.                   *)
Settled == \/ object.status.observed = object.gen
              /\ (Ready(object.status.conds) \/ Terminal(object.status.conds))
           \/ sources # Sources
StatusSettles == <>[](object.exists /\ ~object.deleted => Settled)

(* The operator comes to an end with every configuration: a deleted one goes *)
(* away (DeletionCompletes), one that stays has its status (StatusSettles).  *)
OperatorSettles == DeletionCompletes /\ StatusSettles
=============================================================================
