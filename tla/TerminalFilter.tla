--------------------------- MODULE TerminalFilter ---------------------------
(***************************************************************************)
(* The filter in front of a terminal (src/src/fd_filter.cpp): it replaces  *)
(* xterm's mouse reports by QNX ones and passes everything else on.  An    *)
(* escape may be the beginning of a report, so it is held back until the   *)
(* rest arrives or 200 ms have passed, while VMIN and VTIME of the         *)
(* terminal say when a read has to return, and a signal ends it early.     *)
(*                                                                         *)
(* pc is the position in common_read:                                      *)
(*   "idle"     no read in progress                                        *)
(*   "top"      the head of the loop, before the clock is read             *)
(*   "process"  in process(now)                                            *)
(*   "check"    process has returned                                       *)
(*   "enter"    about to call ppoll or read, which mode says               *)
(*   "asleep"   in ppoll or read                                           *)
(* Times are kept as what is left of them: escLeft of the 200 ms since     *)
(* m_esc_start_time, rcLeft of the read's deadline, pollLeft of ppoll's    *)
(* timeout; a time is over when nothing is left.  The code compares with   *)
(* the clock as read at the head of the loop, so time stands still from    *)
(* there to "enter".                                                       *)
(***************************************************************************)
EXTENDS Integers, Sequences, FiniteSetsExt, SequencesExt

CONSTANTS
    Inputs,         \* what the user may type: sequences of bytes
    Vmins, Vtimes,  \* settings of the terminal
    CcMod,          \* what a byte of c_cc wraps around at, 2^8
    Minimums, Times,  \* the 16-bit fields of a dev_read
    Sizes,          \* bytes the guest asks for
    ReadMax,        \* size of the buffer of one host read, 128
    EscTimeout,     \* esc_timeout, 200 ms
    ReportLen,      \* bytes of a QNX mouse report
    MaxSigs         \* bound: signals during reads

(* As the first byte of a report's payload, space and ! are the buttons 1  *)
(* and 2 going down, # is the release, and the others have the motion bit. *)
Byte == {"esc", "[", "M", "A", " ", "!", "#"}

ASSUME FilterAssumption ==
    /\ Inputs \subseteq Seq(Byte)
    /\ CcMod \in Nat \ {0}
    /\ Vmins \subseteq 0 .. CcMod - 1 /\ Vtimes \subseteq 0 .. CcMod - 1
    /\ Minimums \subseteq Nat /\ Times \subseteq Nat
    /\ Sizes \subseteq Nat \ {0}
    /\ ReadMax \in Nat \ {0}
    /\ EscTimeout \in Nat \ {0}
    /\ ReportLen \in Nat \ {0}
    /\ MaxSigs \in Nat

Button == {"select", "adjust"}

(* An element of the output: a byte passed on, the first byte of a report  *)
(* (its type, the buttons it names, the bytes it replaces), or another     *)
(* byte of it.                                                             *)
Item == [kind : {"byte", "down", "up", "move", "more"},
         held : SUBSET Button, bytes : Seq(Byte)]

VARIABLES
    typed,      \* all the user ever types
    nread,      \* bytes of it the filter has read
    buffer,     \* m_buffer
    out,        \* all that was ever put in m_ready
    taken,      \* the part of it the guest has got; the rest is m_ready
    waiting,    \* m_waiting_for_esc
    escLeft,
    buttons,    \* m_buttons
    pc,
    first,      \* first_pass
    mode,       \* "poll0" (no timeout), "poll" or "read"
    pollLeft,
    rc,         \* ReadContext: min, max, has it a deadline; the handler, and
                \* what was asked for
    rcLeft,
    sig,        \* an unmasked signal is pending in m_sigpend
    sigs,       \* signals so far
    result      \* the reply to the last read

parser == <<buffer, out, waiting, escLeft, buttons>>
sleep == <<mode, pollLeft>>
call == <<rc, rcLeft>>
signals == <<sig, sigs>>
vars == <<typed, nread, buffer, out, taken, waiting, escLeft, buttons,
          pc, first, mode, pollLeft, rc, rcLeft, sig, sigs, result>>

NoCall == [min |-> 0, max |-> 0, timed |-> FALSE, dev |-> FALSE,
           asked |-> 0, cut |-> FALSE]

Init ==
    /\ typed \in Inputs /\ nread = 0
    /\ buffer = <<>> /\ out = <<>> /\ taken = 0
    /\ waiting = FALSE /\ escLeft = 0
    /\ buttons = {}
    /\ pc = "idle" /\ first = FALSE
    /\ mode = "poll0" /\ pollLeft = 0
    /\ rc = NoCall
    /\ rcLeft = 0
    /\ sig = FALSE /\ sigs = 0
    /\ result = [status |-> "none", n |-> 0]

ReadySize == Len(out) - taken           \* m_ready.size()

-----------------------------------------------------------------------------
(* The world: the clock and the host's signals.  A byte arrives when it is  *)
(* read; until then the terminal has nothing.                              *)

Less(n) == IF n = 0 THEN 0 ELSE n - 1

Tick ==
    /\ pc \notin {"process", "check"}
    /\ escLeft' = Less(escLeft)
    /\ rcLeft' = Less(rcLeft)
    /\ pollLeft' = IF pc = "asleep" THEN Less(pollLeft) ELSE pollLeft
    /\ UNCHANGED <<typed, nread, buffer, out, taken, waiting, buttons, pc,
                   first, mode, rc, signals, result>>

(* The read is over and its locals are gone; signal_tail raises what is    *)
(* pending on the way back.                                                *)
Return(status, n) ==
    /\ pc' = "idle"
    /\ taken' = taken + n
    /\ result' = [status |-> status, n |-> n]
    /\ rc' = NoCall /\ rcLeft' = 0
    /\ first' = FALSE /\ mode' = "poll0" /\ pollLeft' = 0
    /\ sig' = FALSE
    /\ UNCHANGED <<typed, nread>>

(* handler_generic sets a bit of m_sigpend; a sleeping ppoll or read fails *)
(* with EINTR.                                                             *)
Signal ==
    /\ pc \in {"top", "enter", "asleep"}
    /\ sigs < MaxSigs
    /\ sigs' = sigs + 1
    /\ UNCHANGED parser
    /\ \/ /\ pc = "asleep"
          /\ Return("EINTR", 0)
       \/ /\ pc # "asleep"
          /\ sig' = TRUE
          /\ UNCHANGED <<typed, nread, taken, pc, first, sleep, call, result>>

-----------------------------------------------------------------------------
(* ReadContext::setup.  Beside it: the bytes the guest asked for at least, *)
(* and whether a field of its request was cut down.                        *)
setup(vmin, vtime, n, dev, asked, cut) ==
    [min |-> IF vtime # 0 THEN 1 ELSE vmin,
     max |-> n,
     timed |-> vmin = 0 /\ vtime # 0,
     dev |-> dev,
     asked |-> asked,
     cut |-> cut]

(* The beginning of TerminalFilter::read and dev_read.                     *)
BeginRead(vmin, vtime, n, dev, asked, cut) ==
    /\ pc = "idle"
    /\ rc' = setup(vmin, vtime, n, dev, asked, cut)
    /\ rcLeft' = IF rc'.timed THEN vtime ELSE 0
    /\ first' = TRUE
    /\ pc' = "top"
    /\ result' = [status |-> "none", n |-> 0]
    /\ UNCHANGED <<typed, nread, parser, taken, sleep, signals>>

(* What a minimum and a time ask for, in their full width: with a time, or *)
(* a time-out, the first byte is enough.                                   *)
Asked(minimum, time) == IF time # 0 THEN 1 ELSE minimum

(* The terminal's own settings, from tcgetattr.                            *)
read(vmin, vtime, n) ==
    BeginRead(vmin, vtime, n, FALSE, Asked(vmin, vtime), FALSE)

(* The settings of the message, from TermiosSettings::approximate: a       *)
(* 16-bit field is stored in a byte of c_cc, after the time-out was        *)
(* compared with 0 in its full width.                                      *)
cc(field) == field % CcMod

dev_read(timeout, time, minimum, n) ==
    IF timeout # 0
    THEN BeginRead(0, cc(timeout), n, TRUE, Asked(0, timeout),
                   timeout # cc(timeout))
    ELSE BeginRead(cc(minimum), cc(time), n, TRUE, Asked(minimum, time),
                   minimum # cc(minimum) \/ time # cc(time))

(* should_preempt.  dev_read overwrites the error with errno, which no     *)
(* call has set.                                                           *)
Preempted ==
    /\ pc = "top"
    /\ sig
    /\ Return(IF rc.dev THEN "stale" ELSE "EINTR", 0)
    /\ UNCHANGED <<parser, sigs>>

-----------------------------------------------------------------------------
(* process, one iteration at a time.                                       *)

StartProcess ==
    /\ pc = "top"
    /\ ~sig
    /\ pc' = "process"
    /\ UNCHANGED <<typed, nread, parser, taken, first, sleep, call, signals,
                   result>>

Passed(s) == [i \in 1 .. Len(s) |->
                 [kind |-> "byte", held |-> {}, bytes |-> <<s[i]>>]]

(* transfer: the first n bytes of m_buffer become ready.                   *)
transfer(n) ==
    /\ out' = out \o Passed(SubSeq(buffer, 1, n))
    /\ buffer' = SubSeq(buffer, n + 1, Len(buffer))

InProcess ==
    /\ pc = "process"
    /\ UNCHANGED <<typed, nread, taken, first, sleep, call, signals, result>>

(* Everything before the next escape.                                      *)
TransferPlain ==
    /\ InProcess
    /\ buffer # <<>>
    /\ Head(buffer) # "esc"
    /\ LET esc == SelectInSeq(buffer, LAMBDA b : b = "esc")
       IN  transfer(IF esc = 0 THEN Len(buffer) ELSE esc - 1)
    /\ UNCHANGED <<pc, waiting, escLeft, buttons>>

ProcessDone ==
    /\ InProcess
    /\ buffer = <<>>
    /\ pc' = "check"
    /\ UNCHANGED parser

(* parse_esc, for a buffer that begins with an escape.                     *)
AtEscape == InProcess /\ buffer # <<>> /\ Head(buffer) = "esc"
Incomplete == buffer \in {<<"esc">>, <<"esc", "[">>}
Recognized == Len(buffer) >= 6 /\ buffer[2] = "[" /\ buffer[3] = "M"

(* Mutant: the release keeps the buttons.                                  *)
MouseEvent_kept(b) ==
    CASE b = " " -> [kind |-> "down", held |-> {"select"}, now |-> buttons \cup {"select"}]
      [] b = "!" -> [kind |-> "down", held |-> {"adjust"}, now |-> buttons \cup {"adjust"}]
      [] b = "#" -> [kind |-> "up", held |-> buttons, now |-> buttons]
      [] OTHER -> [kind |-> "move", held |-> buttons, now |-> buttons]

(* What a report says, and m_buttons after it.                             *)
MouseEvent(b) ==
    CASE b = " " -> [kind |-> "down", held |-> {"select"}, now |-> buttons \cup {"select"}]
      [] b = "!" -> [kind |-> "down", held |-> {"adjust"}, now |-> buttons \cup {"adjust"}]
      [] b = "#" -> [kind |-> "up", held |-> buttons, now |-> {}]
      [] OTHER -> [kind |-> "move", held |-> buttons, now |-> buttons]

Report(event, bytes) ==
    [i \in 1 .. ReportLen |->
        IF i = 1 THEN [kind |-> event.kind, held |-> event.held, bytes |-> bytes]
        ELSE [kind |-> "more", held |-> {}, bytes |-> <<>>]]

(* Mutant: one byte too few is dropped.                                    *)
EscRecognized_5 ==
    /\ AtEscape
    /\ Recognized
    /\ LET event == MouseEvent(buffer[4])
       IN  /\ out' = out \o Report(event, SubSeq(buffer, 1, 6))
           /\ buttons' = event.now
    /\ buffer' = SubSeq(buffer, 6, Len(buffer))
    /\ waiting' = FALSE
    /\ escLeft' = 0
    /\ UNCHANGED pc

EscRecognized ==
    /\ AtEscape
    /\ Recognized
    /\ LET event == MouseEvent(buffer[4])
       IN  /\ out' = out \o Report(event, SubSeq(buffer, 1, 6))
           /\ buttons' = event.now
    /\ buffer' = SubSeq(buffer, 7, Len(buffer))         \* drop(6)
    /\ waiting' = FALSE
    /\ escLeft' = 0
    /\ UNCHANGED pc

EscUnknown ==
    /\ AtEscape
    /\ ~Incomplete /\ ~Recognized
    /\ transfer(1)
    /\ waiting' = FALSE
    /\ escLeft' = 0
    /\ UNCHANGED <<pc, buttons>>

(* Mutant: the time-out itself does not count as over.                     *)
EscOver_late == escLeft < 0

(* now >= m_esc_start_time + esc_timeout                                   *)
EscOver == escLeft = 0

EscExpired ==
    /\ AtEscape
    /\ Incomplete
    /\ waiting /\ EscOver
    /\ transfer(1)
    /\ waiting' = FALSE
    /\ UNCHANGED <<pc, escLeft, buttons>>

EscStartsWait ==
    /\ AtEscape
    /\ Incomplete
    /\ ~waiting
    /\ waiting' = TRUE
    /\ escLeft' = EscTimeout
    /\ UNCHANGED <<pc, buffer, out, buttons>>

(* Mutant: every look starts the time-out again.                           *)
EscWaits_restart ==
    /\ AtEscape
    /\ Incomplete
    /\ waiting /\ ~EscOver
    /\ pc' = "check"
    /\ escLeft' = EscTimeout
    /\ UNCHANGED <<buffer, out, waiting, buttons>>

EscWaits ==
    /\ AtEscape
    /\ Incomplete
    /\ waiting /\ ~EscOver
    /\ pc' = "check"
    /\ UNCHANGED parser

process ==
    \/ StartProcess \/ TransferPlain \/ ProcessDone
    \/ EscRecognized \/ EscUnknown \/ EscExpired \/ EscStartsWait \/ EscWaits

-----------------------------------------------------------------------------
(* The rest of the loop of common_read.                                    *)

(* Mutant: exactly the minimum is not enough.                              *)
Satisfied_more == (ReadySize > 0 \/ ~first) /\ ReadySize > rc.min

Satisfied == (ReadySize > 0 \/ ~first) /\ ReadySize >= rc.min

(* The Deadline the poll uses: none, or the one with this much left.       *)
(* Deadline::operator|= compares the two as Booleans, of which neither is  *)
(* less, so that the read's own deadline is kept whenever it has one.      *)
deadline ==
    IF rc.timed THEN {rcLeft}
    ELSE IF waiting THEN {escLeft}
    ELSE {}

(* Mutant: no look at the clock before the poll.                           *)
DeadlineOver_never == FALSE

DeadlineOver == rc.min > 0 /\ 0 \in deadline        \* now >= deadline.v

(* Mutant: as much as was asked for.                                       *)
nbytes_asked == rc.max

nbytes == Min({ReadySize, rc.max})                  \* reply.m_nbytes

ReplyData ==
    /\ pc = "check"
    /\ Satisfied \/ DeadlineOver
    /\ Return("ok", nbytes)
    /\ UNCHANGED <<parser, sigs>>

ChooseWait ==
    /\ pc = "check"
    /\ ~Satisfied /\ ~DeadlineOver
    /\ mode' = IF rc.min = 0 THEN "poll0"
               ELSE IF deadline = {} THEN "read" ELSE "poll"
    /\ pollLeft' = IF mode' = "poll" THEN Max(deadline) ELSE 0
    /\ pc' = "enter"
    /\ UNCHANGED <<typed, nread, parser, taken, first, call, signals, result>>

FallAsleep ==
    /\ pc = "enter"
    /\ pc' = "asleep"
    /\ UNCHANGED <<typed, nread, parser, taken, first, sleep, call, signals,
                   result>>

(* The host's read gives n bytes, none of them at the end of the file,     *)
(* after a hang-up and where the host's own VMIN is 0, whatever the        *)
(* dev_read asked for.                                                     *)
HostRead(n) ==
    /\ pc = "asleep"
    /\ buffer' = buffer \o SubSeq(typed, nread + 1, nread + n)
    /\ nread' = nread + n
    /\ first' = FALSE
    /\ mode' = "poll0" /\ pollLeft' = 0
    /\ pc' = "top"
    /\ UNCHANGED <<typed, out, taken, waiting, escLeft, buttons, call,
                   signals, result>>

(* ppoll returns 0: there was nothing to read.                             *)
PollTimesOut ==
    /\ pc = "asleep"
    /\ mode # "read" /\ pollLeft = 0
    /\ first' = FALSE
    /\ mode' = "poll0" /\ pollLeft' = 0
    /\ pc' = "top"
    /\ UNCHANGED <<typed, nread, parser, taken, call, signals, result>>

(* ppoll or read fails for another reason than a signal.                   *)
HostFails ==
    /\ pc = "asleep"
    /\ Return("error", 0)
    /\ UNCHANGED <<parser, sigs>>

common_read ==
    \/ Preempted
    \/ process
    \/ ReplyData \/ ChooseWait \/ FallAsleep \/ PollTimesOut

Next ==
    \/ Tick
    \/ Signal
    \/ \E vmin \in Vmins, vtime \in Vtimes, n \in Sizes : read(vmin, vtime, n)
    \/ \E timeout, time \in Times, minimum \in Minimums, n \in Sizes :
          dev_read(timeout, time, minimum, n)
    \/ common_read
    \/ HostFails
    \/ \E n \in 0 .. Min({Len(typed) - nread, ReadMax}) : HostRead(n)

Spec == Init /\ [][Next]_vars

(* The process runs and time passes, but nobody has to type.  Time stands  *)
(* still in the filter's own steps, so that weak fairness would not be     *)
(* enough for Tick.                                                        *)
FairSpec == Spec /\ WF_vars(common_read) /\ SF_vars(Tick)

-----------------------------------------------------------------------------
TypeOK ==
    /\ typed \in Seq(Byte)
    /\ nread \in 0 .. Len(typed)
    /\ buffer \in Seq(Byte)
    /\ out \in Seq(Item)
    /\ taken \in 0 .. Len(out)
    /\ waiting \in BOOLEAN /\ escLeft \in 0 .. EscTimeout
    /\ buttons \subseteq Button
    /\ pc \in {"idle", "top", "process", "check", "enter", "asleep"}
    /\ first \in BOOLEAN
    /\ mode \in {"poll0", "poll", "read"} /\ pollLeft \in Nat
    /\ rc \in [min : Nat, max : Nat, timed : BOOLEAN, dev : BOOLEAN,
               asked : Nat, cut : BOOLEAN]
    /\ rcLeft \in Nat
    /\ sig \in BOOLEAN /\ sigs \in 0 .. MaxSigs
    /\ result \in [status : {"none", "ok", "EINTR", "stale", "error"}, n : Nat]

(* The input that items of the output stand for, item by item.             *)
Bytes(items) == [i \in 1 .. Len(items) |-> items[i].bytes]

(* However the input is cut into reads, whatever runs into its time-out    *)
(* and wherever a signal ends a read: what the guest has got or can get,   *)
(* with every report standing for the six bytes it replaces, followed by   *)
(* what is held back, is what was read from the terminal, in order         *)
(* (transfer, drop and the erase of m_ready).                              *)
NothingLost ==
    FlattenSeq(Bytes(out)) \o buffer = SubSeq(typed, 1, nread)

(* The buttons that went down in the first n items since the last release. *)
Pressed(items, n) ==
    UNION {items[j].held : j \in {k \in 1 .. n :
        /\ items[k].kind = "down"
        /\ \A u \in k .. n : items[u].kind # "up"}}

(* m_buttons tells releases apart: a release or a motion names the buttons *)
(* that went down since the last release and no others, also when other    *)
(* input, or a report passed on raw because it was cut, comes between      *)
(* (parse_esc).                                                            *)
ButtonsReported ==
    /\ buttons = Pressed(out, Len(out))
    /\ \A i \in DOMAIN out :
          out[i].kind \in {"up", "move"} => out[i].held = Pressed(out, i - 1)

(* A read that succeeds has what the guest asked for, or its own deadline  *)
(* is over: the time-out of an escape in the buffer, on which the same     *)
(* poll waits, never ends it early.  A guest would take the empty reply    *)
(* for the end of the file (common_read).  A request with a field of 256   *)
(* or more is read with what is left of it in c_cc (a minimum of 256 with  *)
(* none at all); of it only that is promised.                              *)
NoShortRead ==
    [][pc # "idle" /\ pc' = "idle" /\ result'.status = "ok" =>
          \/ rc.timed /\ rcLeft = 0
          \/ /\ result'.n >= Min({rc.min, rc.max})
             /\ rc.cut \/ result'.n >= Min({rc.asked, rc.max})]_vars

(* A read sleeps only while it has not got its minimum, without a limit    *)
(* only when nothing is held back, and what is held back is the beginning  *)
(* of a sequence (common_read, process).                                   *)
NoSleepOnData ==
    pc \in {"enter", "asleep"} /\ rc.min > 0 =>
        /\ ReadySize < rc.min
        /\ buffer # <<>> => mode = "poll" /\ waiting /\ Incomplete

(* A read with VTIME and without VMIN returns, whatever is typed, held     *)
(* back or signalled meanwhile (common_read).                              *)
TimedReadReturns == (pc # "idle" /\ rc.timed) ~> pc = "idle"

(* An escape that is held back during a blocking read is passed on, or the *)
(* read returns: the read does not wait for the next key (process,         *)
(* common_read).                                                           *)
EscapeReleased ==
    (pc # "idle" /\ rc.min > 0 /\ waiting) ~> (pc = "idle" \/ ~waiting)
=============================================================================
