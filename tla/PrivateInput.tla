---------------------------- MODULE PrivateInput ----------------------------
(***************************************************************************)
(* runAnsibleInput: values that must not appear in arguments or on disk    *)
(* reach an Ansible playbook through a FIFO.  A goroutine waits for a      *)
(* reader and writes; the command runs beside it; then the goroutine is    *)
(* cancelled and joined and the FIFO removed.  Ansible may exit without    *)
(* ever opening the FIFO; when it opens it, it reads to the end or fails.  *)
(***************************************************************************)
EXTENDS Naturals

CONSTANTS
    Chunks,      \* writes the input takes
    PipeRoom     \* how many of them the pipe holds

ASSUME InputBounds == Chunks \in Nat \ {0} /\ PipeRoom \in Nat \ {0}

VARIABLES
    caller,     \* the step of runAnsibleInput
    fifo,       \* the path: "absent", "fifo" or "other"
    writer,     \* the goroutine: "none", "opening", "writing", "sent", "error"
    cancelled,  \* its context
    ctxDone,    \* the context of the command
    playbook,   \* the process: "none", "started", "reading", "ok", "failed"
    sent, taken, \* chunks written and read
    verdict     \* what runAnsibleInput returns

inputVars == <<caller, fifo, writer, cancelled, ctxDone, playbook, sent, taken, verdict>>

InputInit ==
    /\ caller = "idle" /\ fifo \in {"absent", "other"} /\ writer = "none" /\ cancelled = FALSE
    /\ ctxDone = FALSE /\ playbook = "none" /\ sent = 0 /\ taken = 0 /\ verdict = "none"

\* mkfifo; a name that is taken gives another name, after sixteen an error.
createPrivateAnsibleFIFO ==
    /\ caller = "idle"
    /\ \/ fifo' = "fifo" /\ caller' = "run" /\ writer' = "opening" /\ playbook' = "started" /\ UNCHANGED verdict
       \/ fifo = "other" /\ caller' = "returned" /\ verdict' = "error" /\ UNCHANGED <<fifo, writer, playbook>>
    /\ UNCHANGED <<cancelled, ctxDone, sent, taken>>

(***************************************************************************)
(* The goroutine                                                           *)
(***************************************************************************)
\* ENXIO until somebody has the FIFO open for reading.
openWriter ==
    /\ writer = "opening" /\ fifo = "fifo" /\ playbook = "reading" /\ writer' = "writing"
    /\ UNCHANGED <<caller, fifo, cancelled, ctxDone, playbook, sent, taken, verdict>>

\* The context ends between two attempts, or the path is no FIFO any more.
openGivesUp ==
    /\ writer = "opening" /\ (cancelled \/ ctxDone \/ fifo # "fifo") /\ writer' = "error"
    /\ UNCHANGED <<caller, fifo, cancelled, ctxDone, playbook, sent, taken, verdict>>

\* Writes go on while the pipe has room, also after the context ended.
writeChunk ==
    /\ writer = "writing" /\ playbook = "reading" /\ sent < Chunks /\ sent - taken < PipeRoom
    /\ sent' = sent + 1 /\ writer' = IF sent + 1 = Chunks THEN "sent" ELSE "writing"
    /\ UNCHANGED <<caller, fifo, cancelled, ctxDone, playbook, taken, verdict>>

\* EPIPE, or a full pipe and an ended context.
writeGivesUp ==
    /\ writer = "writing"
    /\ playbook # "reading" \/ (sent - taken = PipeRoom /\ (cancelled \/ ctxDone))
    /\ writer' = "error"
    /\ UNCHANGED <<caller, fifo, cancelled, ctxDone, playbook, sent, taken, verdict>>

(***************************************************************************)
(* Ansible                                                                 *)
(***************************************************************************)
openReader ==
    /\ playbook = "started" /\ fifo = "fifo" /\ playbook' = "reading"
    /\ UNCHANGED <<caller, fifo, writer, cancelled, ctxDone, sent, taken, verdict>>

readChunk ==
    /\ playbook = "reading" /\ taken < sent /\ taken' = taken + 1
    /\ UNCHANGED <<caller, fifo, writer, cancelled, ctxDone, playbook, sent, verdict>>

\* End of file: the writer has closed, and the pipe is empty.
playbookEnds ==
    /\ \/ playbook = "reading" /\ writer \in {"sent", "error"} /\ taken = sent /\ playbook' \in {"ok", "failed"}
       \/ playbook = "started" /\ playbook' \in {"ok", "failed"}
       \/ playbook = "reading" /\ playbook' = "failed"
    /\ UNCHANGED <<caller, fifo, writer, cancelled, ctxDone, sent, taken, verdict>>

\* The command's context ends: the process is killed.
stop ==
    /\ caller = "run" /\ ~ ctxDone /\ ctxDone' = TRUE
    /\ playbook' = IF playbook \in {"started", "reading"} THEN "failed" ELSE playbook
    /\ UNCHANGED <<caller, fifo, writer, cancelled, sent, taken, verdict>>

(***************************************************************************)
(* The caller                                                              *)
(***************************************************************************)
cancelWriter ==
    /\ caller = "run" /\ playbook \in {"ok", "failed"} /\ cancelled' = TRUE /\ caller' = "join"
    /\ UNCHANGED <<fifo, writer, ctxDone, playbook, sent, taken, verdict>>

joinWriter ==
    /\ caller = "join" /\ writer \in {"sent", "error"}
    /\ verdict' = (IF playbook = "ok" /\ writer = "sent" THEN "ok" ELSE "error") /\ caller' = "cleanup"
    /\ UNCHANGED <<fifo, writer, cancelled, ctxDone, playbook, sent, taken>>

\* Only a FIFO is removed; anything else in its place is an error.
removePrivateAnsibleFIFO ==
    /\ caller = "cleanup" /\ caller' = "returned"
    /\ fifo' = (IF fifo = "fifo" THEN "absent" ELSE fifo)
    /\ verdict' = (IF fifo = "other" THEN "error" ELSE verdict)
    /\ UNCHANGED <<writer, cancelled, ctxDone, playbook, sent, taken>>

\* The owner removes the FIFO or puts a file there.
replaceFIFO ==
    /\ fifo = "fifo" /\ fifo' \in {"absent", "other"}
    /\ UNCHANGED <<caller, writer, cancelled, ctxDone, playbook, sent, taken, verdict>>

\* The next playbook with private input.
nextInput ==
    /\ caller = "returned" /\ caller' = "idle" /\ writer' = "none" /\ cancelled' = FALSE /\ ctxDone' = FALSE
    /\ playbook' = "none" /\ sent' = 0 /\ taken' = 0 /\ verdict' = "none" /\ UNCHANGED fifo

Goroutine == openWriter \/ openGivesUp \/ writeChunk \/ writeGivesUp
Ansible == openReader \/ readChunk \/ playbookEnds
Caller == createPrivateAnsibleFIFO \/ cancelWriter \/ joinWriter \/ removePrivateAnsibleFIFO \/ nextInput
InputNext == Goroutine \/ Ansible \/ Caller \/ stop \/ replaceFIFO

\* The scheduler runs the goroutine and the caller, and a playbook ends by itself.
InputFairness ==
    WF_inputVars(Goroutine) /\ WF_inputVars(Ansible) /\ WF_inputVars(Caller) /\ SF_inputVars(playbookEnds)
InputSpec == InputInit /\ [][InputNext]_inputVars /\ InputFairness

(***************************************************************************)
(* Properties                                                              *)
(***************************************************************************)
\* The state is well formed; what is in the pipe fits.
InputTypeOK ==
    /\ fifo \in {"absent", "fifo", "other"} /\ verdict \in {"none", "ok", "error"}
    /\ sent \in 0 .. Chunks /\ taken \in 0 .. sent /\ sent - taken <= PipeRoom
    /\ caller \in {"cleanup", "returned"} => writer # "opening" /\ writer # "writing"

\* A projection that is reported done was read to its last byte: not when Ansible
\* never asked for it, lost the writer half way, or was cancelled.
ReportedIsDelivered == caller = "returned" /\ verdict = "ok" => taken = Chunks

\* The call returns, whether or not Ansible opens the FIFO: nobody waits for a
\* goroutine that waits for a reader that is gone.
InputReturns == []<>(caller = "returned")
=============================================================================
