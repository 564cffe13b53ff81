----------------------------- MODULE LogCapture ------------------------------
(***************************************************************************)
(* The capture of the two native logs: shim.c keeps lines, from any        *)
(* thread, in a ring of bytes, and the log thread of the runtime collects  *)
(* them there (runtime.py).  g_log_lock makes every function one step, but *)
(* for bp_log_read, which gives it up while it waits for the condition.    *)
(* The functions are the same for every runtime of the process; a reader   *)
(* of an earlier one may still be there when the next begins.              *)
(***************************************************************************)
EXTENDS Integers, Sequences, FiniteSets

CONSTANTS Cap,       \* BP_LOG_RING_BYTES
          HdrLen,    \* the bytes of a header
          MaxText,   \* BP_LOG_LINE_MAX - 1
          MaxLines,  \* bound: lines the stack logs
          MaxRuns    \* bound: runtimes of the process

ASSUME LogCaptureAssumption ==
    /\ Cap \in Nat /\ HdrLen \in Nat \ {0} /\ MaxText \in Nat \ {0}
    /\ HdrLen + MaxText <= Cap
    /\ MaxLines \in Nat /\ MaxRuns \in Nat

Slot == 0 .. (Cap - 1)
Line == [id : 1 .. MaxLines, len : 1 .. MaxText]
Reader == 1 .. MaxRuns
NoByte == [line |-> [id |-> 0, len |-> 0], at |-> 0]
Byte == [line : Line, at : 1 .. (HdrLen + MaxText)] \cup {NoByte}
Record == Seq(Byte)

VARIABLES
    log,       \* g_log_ring, g_log_head and g_log_used
    dropped,   \* g_log_dropped
    reading,   \* g_log_reading
    reader,    \* where the log thread of each runtime is
    (* history *)
    logged,    \* lines the stack has logged
    runs,      \* captures started
    kept,      \* the lines that went into the ring since the last start
    got,       \* the bytes of each record that was handed over since
    refused,   \* how many lines found the ring full since
    reported   \* what the dropped counts handed over since add up to

history == <<kept, got, refused, reported>>
logVars == <<log, dropped, reading, reader, logged, runs, history>>

LogInit ==
    /\ log = [bytes |-> [s \in Slot |-> NoByte], head |-> 0, used |-> 0]
    /\ dropped = 0 /\ reading = FALSE
    /\ reader = [r \in Reader |-> "none"]
    /\ logged = 0 /\ runs = 0
    /\ kept = <<>> /\ got = <<>> /\ refused = 0 /\ reported = 0

-----------------------------------------------------------------------------
(* The ring.                                                               *)

Smaller(a, b) == IF a < b THEN a ELSE b

(* The header of a record and the text behind it: a byte is the line it is *)
(* of, and its place in the record.                                        *)
Header(line) == [i \in 1 .. HdrLen |-> [line |-> line, at |-> i]]
Text(line) == [i \in 1 .. line.len |-> [line |-> line, at |-> HdrLen + i]]

(* ring_put: up to the end of the buffer, and on from its start. *)
RingPut(ring, data) ==
    LET tail  == (ring.head + ring.used) % Cap
        first == Smaller(Cap - tail, Len(data))
    IN  [ring EXCEPT !.bytes = [s \in Slot |->
                                   IF tail <= s /\ s < tail + first THEN data[s - tail + 1]
                                   ELSE IF s < Len(data) - first THEN data[first + s + 1]
                                   ELSE ring.bytes[s]],
                     !.used = ring.used + Len(data)]

(* ring_get: what it copies out, and the ring it leaves. *)
Front(ring, n) ==
    LET first == Smaller(Cap - ring.head, n)
    IN  [i \in 1 .. n |-> IF i <= first THEN ring.bytes[ring.head + i - 1]
                                         ELSE ring.bytes[i - first - 1]]

Without(ring, n) == [ring EXCEPT !.head = (ring.head + n) % Cap, !.used = ring.used - n]

-----------------------------------------------------------------------------
(* bp_log_start, bp_log_stop and bp_log_write.                             *)

Asleep == {r \in Reader : reader[r] = "waiting"}

(* A new capture, for the log thread of the next runtime. *)
LogStart ==
    /\ runs < MaxRuns
    /\ runs' = runs + 1
    /\ log' = [log EXCEPT !.head = 0, !.used = 0]
    /\ dropped' = 0 /\ reading' = TRUE
    /\ reader' = [reader EXCEPT ![runs + 1] = "ready"]
    /\ kept' = <<>> /\ got' = <<>> /\ refused' = 0 /\ reported' = 0
    /\ UNCHANGED logged

(* Mutant of LogStop: nobody is woken. *)
LogStopQuietly ==
    /\ reading' = FALSE
    /\ UNCHANGED <<log, dropped, reader, logged, runs, history>>

(* The condition is broadcast. *)
LogStop ==
    /\ reading' = FALSE
    /\ reader' = [r \in Reader |-> IF r \in Asleep THEN "ready" ELSE reader[r]]
    /\ UNCHANGED <<log, dropped, logged, runs, history>>

(* The condition is signalled: one reader that waits is woken. *)
Signal ==
    IF Asleep = {} THEN reader' = reader
    ELSE \E r \in Asleep : reader' = [reader EXCEPT ![r] = "ready"]

Fits(len) == HdrLen + len <= Cap - log.used

(* A line of len bytes, which is what is left of it when it was cut to its  *)
(* greatest length and lost its line ends; if nothing is left, nothing      *)
(* happens.                                                                 *)
LogWrite(len) ==
    LET line == [id |-> logged + 1, len |-> len] IN
    /\ logged < MaxLines
    /\ logged' = logged + 1
    /\ \/ /\ ~reading
          /\ UNCHANGED <<log, dropped, reader, kept, refused>>
       \/ /\ reading /\ ~Fits(len)
          /\ dropped' = dropped + 1 /\ refused' = refused + 1
          /\ UNCHANGED <<log, reader, kept>>
       \/ /\ reading /\ Fits(len)
          /\ log' = RingPut(RingPut(log, Header(line)), Text(line))
          /\ kept' = Append(kept, line)
          /\ Signal
          /\ UNCHANGED <<dropped, refused>>
    /\ UNCHANGED <<reading, runs, got, reported>>

-----------------------------------------------------------------------------
(* The log thread: bp_log_read, and the handlers of the record in between. *)

(* cnd_wait may return for no reason. *)
Spurious(r) ==
    /\ reader[r] = "waiting"
    /\ reader' = [reader EXCEPT ![r] = "ready"]
    /\ UNCHANGED <<log, dropped, reading, logged, runs, history>>

(* The condition of the loop around cnd_wait holds. *)
LogWait(r) ==
    /\ reader[r] = "ready" /\ log.used = 0 /\ reading
    /\ reader' = [reader EXCEPT ![r] = "waiting"]
    /\ UNCHANGED <<log, dropped, reading, logged, runs, history>>

(* The last byte of the header has the length of the text. *)
TextLen(hdr) == hdr[HdrLen].line.len

(* A record is handed over, with how many were dropped since the last one. *)
LogRead(r) ==
    LET hdr  == Front(log, HdrLen)
        rest == Without(log, HdrLen)
        n    == TextLen(hdr)
    IN  /\ reader[r] = "ready" /\ log.used # 0
        /\ reader' = [reader EXCEPT ![r] = "emitting"]
        /\ log' = Without(rest, n)
        /\ got' = Append(got, hdr \o Front(rest, n))
        /\ dropped' = 0 /\ reported' = reported + dropped
        /\ UNCHANGED <<reading, logged, runs, kept, refused>>

(* Stopped, and nothing left to hand over: the thread ends. *)
LogEnd(r) ==
    /\ reader[r] = "ready" /\ log.used = 0 /\ ~reading
    /\ reader' = [reader EXCEPT ![r] = "ended"]
    /\ UNCHANGED <<log, dropped, reading, logged, runs, history>>

(* The handlers return, or raise, which is caught. *)
Emitted(r) ==
    /\ reader[r] = "emitting"
    /\ reader' = [reader EXCEPT ![r] = "ready"]
    /\ UNCHANGED <<log, dropped, reading, logged, runs, history>>

ReaderSteps(r) == LogWait(r) \/ LogRead(r) \/ LogEnd(r) \/ Emitted(r)

(* A runtime starts its capture when no other is active, and with it the    *)
(* one before has stopped its own.                                          *)
LogNext ==
    \/ ~reading /\ LogStart
    \/ LogStop
    \/ \E len \in 1 .. MaxText : LogWrite(len)
    \/ \E r \in Reader : ReaderSteps(r) \/ Spurious(r)

LogSpec == LogInit /\ [][LogNext]_logVars

-----------------------------------------------------------------------------

LogTypeOK ==
    /\ log \in [bytes : [Slot -> Byte], head : Slot, used : 0 .. Cap]
    /\ dropped \in Nat /\ reading \in BOOLEAN
    /\ reader \in [Reader -> {"none", "ready", "waiting", "emitting", "ended"}]
    /\ logged \in 0 .. MaxLines /\ runs \in 0 .. MaxRuns
    /\ kept \in Seq(Line) /\ got \in Seq(Record) /\ refused \in Nat /\ reported \in Nat

(* What is handed over are the lines that were kept, whole and in order,    *)
(* wherever in the ring a record began and however often it went around.    *)
LinesAreWhole ==
    /\ Len(got) <= Len(kept)
    /\ \A i \in 1 .. Len(got) : got[i] = Header(kept[i]) \o Text(kept[i])

(* A line that found no room is counted, the count is handed over once, and *)
(* never stays behind: there is a record to come that it goes with.  A log  *)
(* thread that has ended has left nothing of its capture behind.            *)
NothingIsLeft ==
    /\ refused = reported + dropped
    /\ dropped > 0 => Len(got) < Len(kept)
    /\ runs > 0 /\ reader[runs] = "ended" => Len(got) = Len(kept) /\ dropped = 0

(* No wake-up is lost: while readers wait, of which there is one unless an  *)
(* earlier runtime gave up its own, at least as many are on their way as    *)
(* there are records to read.                                               *)
NoLostWakeup ==
    Asleep # {} => Len(kept) - Len(got) <= Cardinality({r \in Reader : reader[r] = "ready"})
=============================================================================
