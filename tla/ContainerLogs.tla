--------------------------- MODULE ContainerLogs ---------------------------
(***************************************************************************)
(* The logs of a container: a copier (daemon/logger/copier.go) reads the   *)
(* streams of the container, breaks them into lines and logs each, here to *)
(* the RingLogger of a container whose log mode is non-blocking; Reset     *)
(* (container/monitor.go) closes the streams, waits for the copier, but    *)
(* not for ever, and closes the logger.                                    *)
(*                                                                         *)
(* The bytes of a stream are their positions, some of which are newlines;  *)
(* the copier's buffer is an interval of them, and so is a line.  Nobody   *)
(* calls Copier.Close.                                                     *)
(***************************************************************************)
EXTENDS RingLogger

CONSTANTS Lengths,          \* how many bytes the container writes to each stream
          BufSize, ReadSize

ASSUME LogsAssumption ==
    /\ Lengths \subseteq [Writers -> Nat]
    /\ BufSize \in Nat \ {0} /\ ReadSize \in Nat \ {0}
    /\ \A f \in Lengths, w \in Writers : \A k \in 1..f[w] : \A z \in 0..BufSize :
          [src |-> w, no |-> k, size |-> z] \in Messages

VARIABLES
    length,       \* the streams, which end there or before,
    newline,      \* and those of their bytes that are newlines
    pc,           \* the copier's goroutine for each stream
    base, p, n,   \* buf holds the bytes base+1..n; those up to p have been logged
    eof,
    partialid,    \* of the partial message just logged; 0 when there is none
    ordinal, ids, \* its ordinal, and the identifiers generated
    resetting,    \* Reset has closed the streams
    \* History:
    sent,         \* the messages logged: bytes lo+1..hi, with their PLogMetaData
    timedOut      \* Reset did not wait for the copier

copier == <<pc, base, p, n, eof, partialid, ordinal, ids, sent>>
streams == <<length, newline>>
vars == <<ringVars, streams, copier, resetting, timedOut>>

Positions == UNION {{w} \X (1..length[w]) : w \in Writers}

Init ==
    /\ RingInit
    /\ length \in Lengths /\ newline \in SUBSET Positions
    /\ pc = [w \in Writers |-> "read"]
    /\ base = [w \in Writers |-> 0] /\ p = [w \in Writers |-> 0] /\ n = [w \in Writers |-> 0]
    /\ eof = [w \in Writers |-> FALSE]
    /\ partialid = [w \in Writers |-> 0]
    /\ ordinal = [w \in Writers |-> 0]
    /\ ids = [w \in Writers |-> 0]
    /\ resetting = FALSE /\ timedOut = FALSE
    /\ sent = [w \in Writers |-> <<>>]
-----------------------------------------------------------------------------
\* A read of some of the bytes there are, as many as the buffer has room for.
Read(w, k) ==
    /\ pc[w] = "read"
    /\ k <= ReadSize /\ n[w] + k - base[w] <= BufSize /\ n[w] + k <= length[w]
    /\ n' = [n EXCEPT ![w] = @ + k]
    /\ pc' = [pc EXCEPT ![w] = "scan"]
    /\ UNCHANGED <<ringVars, streams, base, p, eof, partialid, ordinal, ids, sent, resetting, timedOut>>

\* The end of the stream, which the copier sees after Reset has closed it.
ReadEOF(w) ==
    /\ pc[w] = "read" /\ resetting
    /\ eof' = [eof EXCEPT ![w] = TRUE]
    /\ pc' = [pc EXCEPT ![w] = IF n[w] = base[w] THEN "ended" ELSE "scan"]
    /\ UNCHANGED <<ringVars, streams, base, p, n, partialid, ordinal, ids, sent, resetting, timedOut>>

ReadFails(w) ==
    /\ pc[w] = "read"
    /\ pc' = [pc EXCEPT ![w] = "ended"]
    /\ UNCHANGED <<ringVars, streams, base, p, n, eof, partialid, ordinal, ids, sent, resetting, timedOut>>

\* c.dst.Log of the bytes up to hi.
Logs(w, hi, ident, ord, last) ==
    /\ sent' = [sent EXCEPT ![w] = Append(@, [lo |-> p[w], hi |-> hi, id |-> ident, ord |-> ord, last |-> last])]
    /\ Log(w, [src |-> w, no |-> Len(sent[w]) + 1, size |-> hi - p[w]])

\* The newlines in buf[p:n].
Ends(w) == {q \in (p[w] + 1)..n[w] : <<w, q>> \in newline}

\* Mutant: a line that completes a partial one does not end it.
LineOpen(w) ==
    \E q \in Ends(w) :
        /\ pc[w] = "scan" /\ calling[w] = None
        /\ \A r \in Ends(w) : q <= r
        /\ Logs(w, q - 1, partialid[w], IF partialid[w] = 0 THEN 0 ELSE ordinal[w], TRUE)
        /\ p' = [p EXCEPT ![w] = q]
        /\ UNCHANGED <<streams, pc, base, n, eof, partialid, ordinal, ids, resetting, timedOut>>

\* The next line of the buffer; it is the last part of one that was logged in parts.
Line(w) ==
    \E q \in Ends(w) :
        /\ pc[w] = "scan" /\ calling[w] = None
        /\ \A r \in Ends(w) : q <= r
        /\ Logs(w, q - 1, partialid[w], IF partialid[w] = 0 THEN 0 ELSE ordinal[w], TRUE)
        /\ p' = [p EXCEPT ![w] = q]
        /\ partialid' = [partialid EXCEPT ![w] = 0]
        /\ ordinal' = [ordinal EXCEPT ![w] = 0]
        /\ UNCHANGED <<streams, pc, base, n, eof, ids, resetting, timedOut>>

Full(w) == p[w] = base[w] /\ n[w] - base[w] = BufSize

\* The rest of a stream that has ended, or a full buffer without a newline: a part of a line.
Part(w) ==
    LET first == partialid[w] = 0
        ident == IF first THEN ids[w] + 1 ELSE partialid[w]
        ord   == IF first THEN 1 ELSE ordinal[w]
    IN  /\ pc[w] = "scan" /\ calling[w] = None
        /\ Ends(w) = {} /\ p[w] < n[w] /\ (eof[w] \/ Full(w))
        /\ Logs(w, n[w], ident, ord, FALSE)
        /\ partialid' = [partialid EXCEPT ![w] = ident]
        /\ ids' = [ids EXCEPT ![w] = IF first THEN @ + 1 ELSE @]
        /\ ordinal' = [ordinal EXCEPT ![w] = ord + 1]
        /\ p' = [p EXCEPT ![w] = n[w]] /\ base' = [base EXCEPT ![w] = n[w]]
        /\ pc' = [pc EXCEPT ![w] = IF eof[w] THEN "ended" ELSE "read"]
        /\ UNCHANGED <<streams, n, eof, resetting, timedOut>>

\* Nothing more to log: the rest is moved to the front of the buffer.
Move(w) ==
    /\ pc[w] = "scan" /\ calling[w] = None
    /\ Ends(w) = {} /\ (p[w] = n[w] \/ ~(eof[w] \/ Full(w)))
    /\ base' = [base EXCEPT ![w] = p[w]]
    /\ pc' = [pc EXCEPT ![w] = IF eof[w] THEN "ended" ELSE "read"]
    /\ UNCHANGED <<ringVars, streams, p, n, eof, partialid, ordinal, ids, sent, resetting, timedOut>>

EnqueueLine(w) == Enqueue(w) /\ UNCHANGED <<streams, copier, resetting, timedOut>>
-----------------------------------------------------------------------------
\* Reset: CloseStreams.
Reset ==
    /\ ~resetting
    /\ resetting' = TRUE
    /\ UNCHANGED <<ringVars, streams, copier, timedOut>>

\* copyJobs.Wait() returns.
Copied == \A w \in Writers : pc[w] = "ended" /\ calling[w] = None

\* <-exit, and then LogDriver.Close().
Exits ==
    /\ resetting /\ Copied
    /\ SetClosed
    /\ UNCHANGED <<streams, copier, resetting, timedOut>>

\* <-timer.C, after loggerCloseTimeout.
TimesOut ==
    /\ resetting /\ ~Copied
    /\ SetClosed
    /\ timedOut' = TRUE
    /\ UNCHANGED <<streams, copier, resetting>>

Logger == (RunStep \/ CloseStep) /\ UNCHANGED <<streams, copier, resetting, timedOut>>

CopierStep(w) == Line(w) \/ Part(w) \/ Move(w) \/ EnqueueLine(w)

Next ==
    \/ \E w \in Writers : \/ \E k \in 1..ReadSize : Read(w, k)
                          \/ ReadEOF(w) \/ ReadFails(w) \/ CopierStep(w)
    \/ Reset \/ Exits \/ TimesOut \/ Logger

(***************************************************************************)
(* Goroutines run, the driver returns from its calls, and the timer fires. *)
(* Nothing makes the container write or Reset begin.                       *)
(***************************************************************************)
Fairness ==
    /\ WF_vars(RunStep /\ UNCHANGED <<streams, copier, resetting, timedOut>>)
    /\ WF_vars(CloseStep /\ UNCHANGED <<streams, copier, resetting, timedOut>>)
    /\ WF_vars(Exits \/ TimesOut)
    /\ \A w \in Writers : WF_vars(ReadEOF(w)) /\ WF_vars(CopierStep(w))

Spec == Init /\ [][Next]_vars /\ Fairness
-----------------------------------------------------------------------------
TypeOK ==
    /\ RingTypeOK
    /\ length \in Lengths /\ newline \subseteq Positions
    /\ pc \in [Writers -> {"read", "scan", "ended"}]
    /\ \A w \in Writers : 0 <= base[w] /\ base[w] <= p[w] /\ p[w] <= n[w] /\ n[w] <= length[w]
    /\ eof \in [Writers -> BOOLEAN]
    /\ partialid \in [Writers -> Nat] /\ ids \in [Writers -> Nat] /\ ordinal \in [Writers -> Nat]
    /\ resetting \in BOOLEAN /\ timedOut \in BOOLEAN
    /\ \A w \in Writers : sent[w] \in Seq([lo : Nat, hi : Nat, id : Nat, ord : Nat, last : BOOLEAN])

\* The stream is cut after m: the newline belongs to neither message.
Cut(m) == IF m.last THEN m.hi + 1 ELSE m.hi

(***************************************************************************)
(* However the reads cut the stream, the messages logged are its lines: no *)
(* byte is left out, and none but the newlines; a message that ends a line *)
(* ends at a newline; parts of a line are joined by their identifier, in   *)
(* the order of their ordinals, and no other message has it.               *)
(***************************************************************************)
LinesKept ==
    \A w \in Writers : \A i \in DOMAIN sent[w] :
        LET m == sent[w][i]
            open == i > 1 /\ ~sent[w][i - 1].last
        IN  /\ m.lo = IF i = 1 THEN 0 ELSE Cut(sent[w][i - 1])
            /\ \A q \in (m.lo + 1)..m.hi : <<w, q>> \notin newline
            /\ m.last => <<w, m.hi + 1>> \in newline
            /\ ~m.last => m.hi - m.lo = BufSize \/ (m.lo < m.hi /\ i = Len(sent[w]) /\ pc[w] = "ended")
            /\ IF open THEN m.id = sent[w][i - 1].id /\ m.ord = sent[w][i - 1].ord + 1
               ELSE \/ m.last /\ m.id = 0
                    \/ /\ ~m.last /\ m.ord = 1
                       /\ \A j \in 1..(i - 1) : sent[w][j].id # m.id

(***************************************************************************)
(* The copier has logged all it has read, but for what is in its buffer,   *)
(* and when the stream has ended there is nothing in it; the buffer always *)
(* has room for another read.                                              *)
(***************************************************************************)
NothingKept ==
    \A w \in Writers :
        /\ p[w] = IF sent[w] = <<>> THEN 0 ELSE Cut(sent[w][Len(sent[w])])
        /\ pc[w] = "ended" /\ eof[w] => p[w] = n[w]
        /\ pc[w] = "read" => p[w] = base[w] /\ n[w] - base[w] < BufSize

(***************************************************************************)
(* "Logger didn't exit in time: logs may be truncated": only then; if      *)
(* Reset has waited for the copier, no message is refused because the      *)
(* logger was closed under it.                                             *)
(***************************************************************************)
TruncatedOnlyLate == refused # {} => timedOut

(***************************************************************************)
(* The logger is closed some time after Reset has begun, whatever the      *)
(* copier does, and run does not outlive it.                               *)
(***************************************************************************)
LoggerCloses == resetting ~> closer = "closed" /\ run = "ended"

(***************************************************************************)
(* What was accepted reaches the driver, or is discarded after an error of *)
(* the driver: no message waits in the ring for a signal that was missed.  *)
(***************************************************************************)
Delivered == []<>(Elements(given) \cup discarded = Numbers)

(***************************************************************************)
(* What the copier reads of the container's output is passed to Log, in    *)
(* lines or parts of lines: what a failed read leaves unread, and what a   *)
(* ring that is full or was closed by a Reset that timed out refuses, is   *)
(* lost.                                                                   *)
(***************************************************************************)
LogComplete == TypeOK /\ LinesKept /\ NothingKept /\ TruncatedOnlyLate

(***************************************************************************)
(* The logger is closed once Reset has begun, and until then what is       *)
(* accepted reaches the driver.                                            *)
(***************************************************************************)
LoggerEnds == LoggerCloses /\ Delivered
=============================================================================
