--------------------------- MODULE ChartSelection ---------------------------
(***************************************************************************)
(* How a pull selects Kubernetes and the chart releases for one Big Bang   *)
(* release: selectCompatiblePlatform in cli/update/service.go, over the    *)
(* chart catalogs of cli/update/chart_resolution.go and the renders of     *)
(* inspectArtifacts in cli/update/artifacts.go.  Every Kubernetes          *)
(* candidate starts with each chart at its newest compatible release; a    *)
(* chart whose render or contract fails moves to its next one.             *)
(*                                                                         *)
(* A catalog lists its releases newest first.  What a release is, is what  *)
(* the selection can tell: whether its appVersion is eligible, on which    *)
(* Kubernetes versions its constraint admits it, on which it renders, and  *)
(* whether what it renders keeps the contracts of the platform.            *)
(***************************************************************************)
EXTENDS Naturals, Sequences, Functions

CONSTANTS Charts,          \* the tracked charts
          Bootstraps,      \* the bootstrap charts
          Catalogs,        \* the upstream catalogs each chart may have
          MaxReleases,     \* releases in a catalog
          Candidates,      \* the sequences of Kubernetes candidates
          MaxFetchFaults,  \* downloads that fail
          Unfinished       \* a chart of the group has not answered yet

ASSUME SelectionAssumption ==
    /\ Unfinished \notin Nat /\ <<>> \notin Candidates /\ \A s \in Candidates : s \in Seq(Range(s))
    /\ \A c \in Charts \union Bootstraps : \A s \in Catalogs[c] : s \in Seq(Range(s))

VARIABLES upstream,    \* the canonical releases of each chart, newest first
          current,     \* the index of the release that is locked now
          kubernetes,  \* the Kubernetes candidates in the order they are tried
          unfit,       \* the candidates at which a package, Big Bang or the ladder fails
          tried,       \* the candidate under trial
          offset,      \* trackedOffsets and bootstrapOffsets
          fetched,     \* catalog.fetched
          scanned,     \* chartCompatibilityState.scanned, by candidate and chart
          matches,     \* chartCompatibilityState.matches, by candidate and chart
          answer,      \* what compatibleAt returned to the group
          failed,      \* the first error of the group
          stage,       \* "tracked", "bootstrap", "render", "over"
          verdict,     \* "none", "selected", "incompatible", "error"
          withdrawn,   \* the context of the pull is cancelled
          fetchFaults

selVars == <<upstream, current, kubernetes, unfit, tried, offset, fetched, scanned, matches,
             answer, failed, stage, verdict, withdrawn, fetchFaults>>

fixed == <<upstream, current, kubernetes, unfit>>

AllCharts == Charts \union Bootstraps
Group == IF stage = "tracked" THEN Charts ELSE Bootstraps
Kube == kubernetes[tried]
Release(c, i) == upstream[c][i]

(* The releases down to the current one; all of them only when the current  *)
(* one deploys a prerelease and has to be repaired.                         *)
chartReleaseCandidates(c) ==
    1..(IF Release(c, current[c]).eligible THEN current[c] ELSE Len(upstream[c]))

(* resolveChartCatalog has fetched and verified the current release.        *)
SelInit ==
    /\ upstream \in [AllCharts -> UNION Range(Catalogs)] /\ current \in [AllCharts -> 1..MaxReleases]
    /\ \A c \in AllCharts : upstream[c] \in Catalogs[c] /\ current[c] \in 1..Len(upstream[c])
    /\ kubernetes \in Candidates /\ unfit \in SUBSET Range(kubernetes)
    /\ tried = 1 /\ offset = [c \in AllCharts |-> 0]
    /\ fetched = [c \in AllCharts |-> {current[c]}]
    /\ scanned = [k \in Range(kubernetes) |-> [c \in AllCharts |-> 0]]
    /\ matches = [k \in Range(kubernetes) |-> [c \in AllCharts |-> <<>>]]
    /\ answer = [c \in AllCharts |-> Unfinished] /\ failed = "none" /\ stage = "tracked"
    /\ verdict = "none" /\ withdrawn = FALSE /\ fetchFaults = 0

----------------------------------------------------------------------------
(* resolveChartsForKubernetes: the charts of a group resolve concurrently,  *)
(* each in its catalog's compatibleAt; the first error cancels the others.  *)

Resolving(c) == stage \in {"tracked", "bootstrap"} /\ c \in Group /\ answer[c] = Unfinished
NextScanned(c) == scanned[Kube][c] + 1
Scanning(c) == Len(matches[Kube][c]) <= offset[c] /\ NextScanned(c) \in chartReleaseCandidates(c)
Compatible(c, i) == Release(c, i).eligible /\ Kube \in Release(c, i).supports

(* One release of the catalog is fetched, or found in catalog.fetched, and  *)
(* sorted into matches or failures.                                         *)
scan(c) ==
    /\ Resolving(c) /\ Scanning(c)
    /\ fetched' = [fetched EXCEPT ![c] = @ \union {NextScanned(c)}]
    /\ scanned' = [scanned EXCEPT ![Kube][c] = @ + 1]
    /\ matches' = [matches EXCEPT ![Kube][c] =
                     IF Compatible(c, NextScanned(c)) THEN Append(@, NextScanned(c)) ELSE @]
    /\ UNCHANGED <<fixed, tried, offset, answer, failed, stage, verdict, withdrawn, fetchFaults>>

FirstError(e) == IF failed = "none" THEN e ELSE failed

(* A download fails, by itself or with the cancelled context of the group:  *)
(* the scan stays where it is.                                              *)
fetchFails(c) ==
    /\ Resolving(c) /\ Scanning(c) /\ NextScanned(c) \notin fetched[c]
    /\ \/ (failed # "none" \/ withdrawn) /\ UNCHANGED fetchFaults
       \/ fetchFaults < MaxFetchFaults /\ fetchFaults' = fetchFaults + 1
    /\ answer' = [answer EXCEPT ![c] = 0] /\ failed' = FirstError("error")
    /\ UNCHANGED <<fixed, tried, offset, fetched, scanned, matches, stage, verdict, withdrawn>>

(* Mutant: a catalog that is exhausted gives no answer. *)
MutantCompatibleAt(c) ==
    /\ Resolving(c) /\ ~Scanning(c) /\ offset[c] < Len(matches[Kube][c])
    /\ answer' = [answer EXCEPT ![c] = matches[Kube][c][offset[c] + 1]]
    /\ UNCHANGED <<fixed, tried, offset, fetched, scanned, matches, failed, stage, verdict,
                   withdrawn, fetchFaults>>

(* The match at the offset, or errNoCompatibleKubernetes; 0 is an error.    *)
compatibleAt(c) ==
    /\ Resolving(c) /\ ~Scanning(c)
    /\ IF offset[c] < Len(matches[Kube][c])
       THEN answer' = [answer EXCEPT ![c] = matches[Kube][c][offset[c] + 1]] /\ UNCHANGED failed
       ELSE answer' = [answer EXCEPT ![c] = 0] /\ failed' = FirstError("incompatible")
    /\ UNCHANGED <<fixed, tried, offset, fetched, scanned, matches, stage, verdict, withdrawn,
                   fetchFaults>>

Restart == answer' = [c \in AllCharts |-> Unfinished] /\ failed' = "none"
Ends(v) == stage' = "over" /\ verdict' = v

MutantNextCandidate ==
    /\ IF tried = Len(kubernetes) THEN Ends("incompatible") /\ UNCHANGED <<tried, offset>>
       ELSE tried' = tried + 1 /\ stage' = "tracked" /\ UNCHANGED <<offset, verdict>>
    /\ Restart

(* The inner loop breaks: the next Kubernetes candidate, every chart again  *)
(* at its newest release, or the end of the candidates.                     *)
NextCandidate ==
    /\ IF tried = Len(kubernetes) THEN Ends("incompatible") /\ UNCHANGED <<tried, offset>>
       ELSE /\ tried' = tried + 1 /\ stage' = "tracked" /\ UNCHANGED verdict
            /\ offset' = [c \in AllCharts |-> 0]
    /\ Restart

(* group.Wait: the bootstrap charts follow the tracked ones, and the render *)
(* follows both once the constraints of all charts admit the candidate,     *)
(* unless inspectArtifacts finds its context cancelled.                     *)
joinGroup ==
    /\ stage \in {"tracked", "bootstrap"} /\ \A c \in Group : answer[c] # Unfinished
    /\ CASE failed = "error" -> Ends("error") /\ UNCHANGED <<tried, offset, answer, failed>>
         [] failed = "incompatible" -> NextCandidate
         [] failed = "none" /\ stage = "tracked" ->
              stage' = "bootstrap" /\ UNCHANGED <<tried, offset, answer, failed, verdict>>
         [] failed = "none" /\ stage = "bootstrap" ->
              IF ~withdrawn /\ \A c \in AllCharts : Kube \in Release(c, answer[c]).supports
              THEN stage' = "render" /\ UNCHANGED <<tried, offset, answer, failed, verdict>>
              ELSE NextCandidate
    /\ UNCHANGED <<fixed, fetched, scanned, matches, withdrawn, fetchFaults>>

----------------------------------------------------------------------------
(* inspectArtifacts and the contracts of what it rendered.                  *)

RenderFails == {c \in AllCharts : Kube \notin Release(c, answer[c]).renders}
ContractFails == {c \in AllCharts : ~Release(c, answer[c]).keeps}

backtrackChart(c) ==
    /\ offset' = [offset EXCEPT ![c] = @ + 1] /\ stage' = "tracked"
    /\ Restart /\ UNCHANGED <<tried, verdict>>

(* The artifacts render concurrently and the first error is the one that is *)
(* blamed: one of the charts, which backtracks, or a package, Big Bang or   *)
(* the cancelled context, which give the candidate up.                      *)
renderFails ==
    /\ stage = "render"
    /\ \/ \E c \in RenderFails : backtrackChart(c)
       \/ (Kube \in unfit \/ withdrawn) /\ NextCandidate
    /\ UNCHANGED <<fixed, fetched, scanned, matches, withdrawn, fetchFaults>>

(* validateOpenSearchMeshContract and validateFormerWaitResourceAbsence.    *)
contractFails ==
    /\ stage = "render" /\ RenderFails = {}
    /\ \E c \in ContractFails : backtrackChart(c)
    /\ UNCHANGED <<fixed, fetched, scanned, matches, withdrawn, fetchFaults>>

selectPlatform ==
    /\ stage = "render" /\ RenderFails = {} /\ ContractFails = {} /\ Kube \notin unfit
    /\ Ends("selected")
    /\ UNCHANGED <<fixed, tried, offset, fetched, scanned, matches, answer, failed, withdrawn,
                   fetchFaults>>

withdraw ==
    /\ stage # "over" /\ ~withdrawn /\ withdrawn' = TRUE
    /\ UNCHANGED <<fixed, tried, offset, fetched, scanned, matches, answer, failed, stage, verdict,
                   fetchFaults>>

SelStep ==
    \/ \E c \in AllCharts : scan(c) \/ fetchFails(c) \/ compatibleAt(c)
    \/ joinGroup \/ renderFails \/ contractFails \/ selectPlatform

SelNext == SelStep \/ withdraw

----------------------------------------------------------------------------
(* The types of the selection.                                              *)
SelTypeOK ==
    /\ tried \in 1..Len(kubernetes) /\ stage \in {"tracked", "bootstrap", "render", "over"}
    /\ \A c \in AllCharts : /\ fetched[c] \subseteq 1..Len(upstream[c])
                            /\ offset[c] \in 0..Len(upstream[c])
                            /\ answer[c] = Unfinished \/ answer[c] \in 0..Len(upstream[c])
    /\ (verdict = "none") = (stage # "over")

(* The releases of a chart that could be deployed on k: not older than the  *)
(* locked one unless that deploys a prerelease.                             *)
Deployable(c, k) ==
    {i \in 1..Len(upstream[c]) :
        LET r == Release(c, i) IN
        /\ i <= current[c] \/ ~Release(c, current[c]).eligible
        /\ r.eligible /\ r.keeps /\ k \in r.supports /\ k \in r.renders}
Feasible(k) == k \notin unfit /\ \A c \in AllCharts : Deployable(c, k) # {}

(* The selection does not depend on the interleaving of the downloads, on   *)
(* which failing artifact is blamed first or on what was cached: it is the  *)
(* first candidate on which everything can be deployed, with every chart at *)
(* the newest release that can, and no chart falls behind its locked one.   *)
(* "is incompatible" is reported only when there is no such candidate,      *)
(* unless the pull was cancelled: a failed download aborts instead.         *)
SelectsNewest ==
    /\ verdict = "selected" =>
         /\ Feasible(Kube) /\ \A j \in 1..tried - 1 : ~Feasible(kubernetes[j])
         /\ \A c \in AllCharts : /\ answer[c] \in Deployable(c, Kube)
                                 /\ \A i \in Deployable(c, Kube) : answer[c] <= i
    /\ verdict = "incompatible" /\ ~withdrawn => \A k \in Range(kubernetes) : ~Feasible(k)

(* The selection comes to an end, however often charts backtrack.           *)
SelectionOver == stage = "over"

SelSpec == SelInit /\ [][SelNext]_selVars /\ WF_selVars(SelStep)
=============================================================================
