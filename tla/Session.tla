------------------------------- MODULE Session ------------------------------
(***************************************************************************)
(* One presentation session of a managed command in its interactive form   *)
(* (cli/tui/session.go, the Bubble Tea model of cli/tui/model.go and       *)
(* withDashboardProjectCompletion of cli/command/dashboard.go).  Services  *)
(* report events from any goroutine; a flusher sends them to the program   *)
(* in batches; the work may take the terminal for a while (sudo); Finish   *)
(* stops the flusher, settles the rows, ends the program and closes the    *)
(* raw log.  reportMu guards the queue and is held for one step here;      *)
(* screenMu is held by the handoff for as long as the terminal is away.    *)
(***************************************************************************)
EXTENDS ProgressRow, FiniteSets, SequencesExt

CONSTANTS Items,        \* the rows of one phase
          Details,      \* the details an update may carry
          MaxReports,   \* events reported in one session
          MaxHandoffs,  \* times the work takes the terminal
          NoBatch,      \* a sender that holds no batch
          Unreported    \* a key that lastEvents does not hold

ASSUME SessionAssumption == /\ "*" \notin Items
                            /\ MaxReports \in Nat
                            /\ MaxHandoffs \in Nat

VARIABLES pending,  \* pendingEvents, in the order of their sequence numbers
          last,     \* lastEvents: the signature of the latest report of a key
          active,   \* activeEvents
          closed,   \* session.closed
          rows,     \* what the program shows
          batch,    \* the batch each sender took and has not sent
          at,       \* where the flusher, the work and the heartbeat are
          away,     \* the terminal is released (its holder has screenMu)
          program,  \* "live", or "canceled" once the user quit it
          result,   \* the error of the work: "none", "complete" or "failed"
          log,      \* the raw log: "open" or "closed"
          reports,  \* events reported so far
          handoffs, \* handoffs so far
          crossed   \* two senders held a batch at the same time

sVars == <<pending, last, active, closed, rows, batch, at, away, program,
           result, log, reports, handoffs, crossed>>

Senders == {"flusher", "work"}
Keys == Items \union {"*"}
Signature(e) == [state |-> e.state, detail |-> e.detail]

Reportable == UNION {{StartOf(i), DoneOf(i), FailOf(i)} : i \in Items}
              \union {UpdateOf(i, d) : i \in Items, d \in Details}
              \union {FinishOf(s) : s \in Terminal}

SessionInit ==
    /\ pending = <<>> /\ last = [k \in Keys |-> Unreported] /\ active = {}
    /\ closed = FALSE /\ rows = [i \in Items |-> "pending"]
    /\ batch = [s \in Senders |-> NoBatch]
    /\ at = [flusher |-> "wait", work |-> "run", heartbeat |-> "wait"]
    /\ away = FALSE /\ program = "live" /\ result = "none" /\ log = "open"
    /\ reports = 0 /\ handoffs = 0 /\ crossed = FALSE

Over == {"await", "stopHeartbeat", "done"}   \* finishMsg was sent

Move(who, place) == at' = [at EXCEPT ![who] = place]

----------------------------------------------------------------------------
(* Reports.                                                                 *)

Queued(e) == {n \in 1..Len(pending) : pending[n].item = e.item}

(* The queue after e: one event per key, the latest; a queued terminal      *)
(* event is not overwritten by an update; a queued start stays a start.     *)
Queue(e) ==
    LET found == Queued(e)
        old   == pending[CHOOSE n \in found : TRUE]
        again == found # {} /\ old.restart /\ e.state = "running"
        new   == [e EXCEPT !.restart = @ \/ again]
    IN  IF found # {} /\ old.state \in Terminal /\ new.state = "running" /\ ~new.restart
        THEN pending
        ELSE Append(SelectSeq(pending, LAMBDA p : p.item # e.item), new)

reportUnlocked(e) ==
    /\ IF closed THEN UNCHANGED <<active, last, pending, reports>>
       ELSE /\ reports < MaxReports /\ reports' = reports + 1
            /\ active' = IF e.item = "*" THEN {}
                         ELSE IF e.state = "running" THEN active \union {e.item}
                         ELSE active \ {e.item}
            /\ IF last[e.item] = Signature(e) THEN UNCHANGED <<last, pending>>
               ELSE last' = [last EXCEPT ![e.item] = Signature(e)] /\ pending' = Queue(e)
    /\ UNCHANGED <<closed, rows, batch, at, away, program, result, log, handoffs, crossed>>

----------------------------------------------------------------------------
(* Sending: a batch is taken under reportMu and sent under screenMu.        *)

Take(who) ==
    /\ batch' = [batch EXCEPT ![who] = pending] /\ pending' = <<>>
    /\ crossed' = (crossed \/ \E s \in Senders \ {who} : batch[s] \notin {NoBatch, <<>>})

Shown(messages) == IF program = "live" THEN ApplyAll(rows, messages) ELSE rows

sendProgram(who) ==
    /\ ~away /\ batch[who] # NoBatch
    /\ rows' = Shown(batch[who]) /\ batch' = [batch EXCEPT ![who] = NoBatch]

(* flushInteractiveEvents: a tick of the ticker, the stop, the last flush.  *)
flushTick ==
    /\ at.flusher = "wait" /\ pending # <<>>
    /\ Take("flusher") /\ Move("flusher", "send")
    /\ UNCHANGED <<last, active, closed, rows, away, program, result, log, reports, handoffs>>

flushSend ==
    /\ at.flusher \in {"send", "last"} /\ sendProgram("flusher")
    /\ Move("flusher", IF at.flusher = "send" THEN "wait" ELSE "done")
    /\ UNCHANGED <<pending, last, active, closed, away, program, result, log, reports,
                   handoffs, crossed>>

flushStop ==
    /\ at.flusher = "wait" /\ at.work = "stopFlush"
    /\ Take("flusher") /\ Move("flusher", "last")
    /\ UNCHANGED <<last, active, closed, rows, away, program, result, log, reports, handoffs>>

----------------------------------------------------------------------------
(* WithTerminal, called by the work.                                        *)

beginHandoff ==
    /\ at.work = "run" /\ handoffs < MaxHandoffs /\ handoffs' = handoffs + 1
    /\ Take("work") /\ Move("work", "publish")
    /\ UNCHANGED <<last, active, closed, rows, away, program, result, log, reports>>

publishBatch ==
    /\ at.work \in {"publish", "republish"} /\ sendProgram("work")
    /\ Move("work", IF at.work = "publish" THEN "release" ELSE "run")
    /\ UNCHANGED <<pending, last, active, closed, away, program, result, log, reports,
                   handoffs, crossed>>

(* screenMu is taken and the program gives the terminal up, or fails to; in *)
(* both cases RestoreTerminal is called next.                               *)
ReleaseTerminal ==
    /\ at.work = "release" /\ away' = TRUE /\ Move("work", "away")
    /\ UNCHANGED <<pending, last, active, closed, rows, batch, program, result, log,
                   reports, handoffs, crossed>>

(* The work is over: the terminal is restored, screenMu let go and what was *)
(* reported in the meantime is taken.                                       *)
RestoreTerminal ==
    /\ at.work = "away" /\ away' = FALSE
    /\ Take("work") /\ Move("work", "republish")
    /\ UNCHANGED <<last, active, closed, rows, program, result, log, reports, handoffs>>

----------------------------------------------------------------------------
(* The user presses q before the work is over: its context is cancelled and *)
(* the program quits.  Keys are read only while it has the terminal.        *)
cancelKey ==
    /\ program = "live" /\ ~away /\ at.work \notin Over
    /\ program' = "canceled"
    /\ UNCHANGED <<pending, last, active, closed, rows, batch, at, away, result, log, reports,
                   handoffs, crossed>>

(* The work returns; a cancelled context is a failure; Finish closes.       *)
Finish ==
    /\ at.work = "run" /\ closed' = TRUE /\ Move("work", "stopFlush")
    /\ result' \in IF program = "canceled" THEN {"failed"} ELSE Terminal
    /\ UNCHANGED <<pending, last, active, rows, batch, away, program, log, reports, handoffs, crossed>>

Settled == [i \in Items |-> IF rows[i] = "running" THEN result ELSE rows[i]]

(* The flusher is done: finishMsg settles the rows and quits the program.   *)
sendFinish ==
    /\ at.work = "stopFlush" /\ at.flusher = "done" /\ ~away
    /\ rows' = IF program = "live" THEN Settled ELSE rows
    /\ Move("work", "await")
    /\ UNCHANGED <<pending, last, active, closed, batch, away, program, result, log, reports,
                   handoffs, crossed>>

(* program.Run returns, and the heartbeat is told to stop.                  *)
programEnds ==
    /\ at.work = "await" /\ Move("work", "stopHeartbeat")
    /\ UNCHANGED <<pending, last, active, closed, rows, batch, away, program, result, log,
                   reports, handoffs, crossed>>

(* The heartbeat reads the session under reportMu and writes the log later. *)
heartbeatRead ==
    /\ at.heartbeat = "wait" /\ Move("heartbeat", IF closed THEN "done" ELSE "write")
    /\ UNCHANGED <<pending, last, active, closed, rows, batch, away, program, result, log,
                   reports, handoffs, crossed>>

heartbeatWrite ==
    /\ at.heartbeat = "write" /\ Move("heartbeat", "wait")
    /\ UNCHANGED <<pending, last, active, closed, rows, batch, away, program, result, log,
                   reports, handoffs, crossed>>

heartbeatStop ==
    /\ at.heartbeat = "wait" /\ at.work = "stopHeartbeat" /\ Move("heartbeat", "done")
    /\ UNCHANGED <<pending, last, active, closed, rows, batch, away, program, result, log,
                   reports, handoffs, crossed>>

closeLog ==
    /\ at.work = "stopHeartbeat" /\ at.heartbeat = "done"
    /\ log' = "closed" /\ Move("work", "done")
    /\ UNCHANGED <<pending, last, active, closed, rows, batch, away, program, result, reports,
                   handoffs, crossed>>

SessionNext ==
    \/ \E e \in Reportable : reportUnlocked(e)
    \/ flushTick \/ flushSend \/ flushStop
    \/ beginHandoff \/ publishBatch \/ ReleaseTerminal \/ RestoreTerminal
    \/ cancelKey \/ Finish \/ sendFinish \/ programEnds
    \/ heartbeatRead \/ heartbeatWrite \/ heartbeatStop \/ closeLog

(* The goroutines of the session once they are to stop; the work itself     *)
(* (run) and what is reported may go on for as long as they like.           *)
SessionStep ==
    \/ flushTick \/ flushSend \/ flushStop
    \/ publishBatch \/ ReleaseTerminal \/ RestoreTerminal \/ sendFinish \/ programEnds \/ closeLog
    \/ heartbeatWrite \/ heartbeatStop \/ (closed /\ heartbeatRead)

----------------------------------------------------------------------------
(* The types, and screenMu: only a handoff has the terminal away.  The      *)
(* heartbeat, which writes outside every lock, finds the raw log open.      *)
SessionTypeOK ==
    /\ \A n \in 1..Len(pending) : pending[n].item \in Keys
    /\ \A m, n \in 1..Len(pending) : pending[m].item = pending[n].item => m = n
    /\ active \subseteq Items /\ closed \in BOOLEAN
    /\ rows \in [Items -> RowStates]
    /\ at.flusher \in {"wait", "send", "last", "done"}
    /\ at.work \in {"run", "publish", "release", "away", "republish", "stopFlush",
                    "await", "stopHeartbeat", "done"}
    /\ at.heartbeat \in {"wait", "write", "done"}
    /\ away = (at.work = "away")
    /\ program \in {"live", "canceled"}
    /\ result \in {"none"} \union Terminal /\ log \in {"open", "closed"}
    /\ at.heartbeat = "write" => log = "open"

(* Once everything queued was sent, and unless two senders held batches at  *)
(* the same time, an item whose latest report is terminal shows that state: *)
(* neither the dedupe, nor the one event kept per item, nor the handoff     *)
(* loses it.                                                                *)
LatestOutcomeShown ==
    /\ pending = <<>> /\ \A s \in Senders : batch[s] \in {NoBatch, <<>>}
    /\ program = "live" /\ ~crossed
    => \A i \in Items :
         last[i] # Unreported /\ last[i].state \in Terminal => rows[i] = last[i].state

(* Once the closing message was sent to a live program no row is running,   *)
(* and none becomes so: the flusher's last batch came before it.            *)
FinishSettles ==
    at.work \in Over /\ program = "live" => \A i \in Items : rows[i] # "running"

(* Once Finish was called the session comes to its end: the flusher, the    *)
(* program and the heartbeat each stop when they are told to.               *)
SessionDone == closed => at.work = "done"

SessionSpec == SessionInit /\ [][SessionNext]_sVars
=============================================================================
