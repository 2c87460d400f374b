--------------------------- MODULE TerminalProofs ---------------------------
(***************************************************************************)
(* Proofs about the terminal.                                              *)
(*                                                                         *)
(* TerminalFilter, for any input, settings and sizes: the filter loses,    *)
(* adds and reorders nothing, reports the buttons that are down, sleeps    *)
(* only when it has to and returns short only when the read's own deadline *)
(* is over.                                                                *)
(*                                                                         *)
(* TerminalModes, for any number of guests and any requests: attributes    *)
(* can be restored, and the terminal is set as was asked for once nobody   *)
(* waits in a dev_read.                                                    *)
(***************************************************************************)
EXTENDS TerminalFilter, TerminalModes, Induction

(* Only an escape at the head of the buffer is waited for.                 *)
EscHeld == waiting => buffer # <<>> /\ Head(buffer) = "esc"

(* When process returns, the buffer is empty or holds the beginning of a   *)
(* sequence that still has time.                                           *)
CheckOK ==
    pc = "check" =>
        /\ buffer # <<>> => waiting /\ Incomplete
        /\ waiting => escLeft > 0

(* A request of which nothing was cut off is read with what it asks for.   *)
AskedOK == rc.cut \/ rc.asked = rc.min

(* The inductive invariant about the loop.                                 *)
LoopInv == TypeOK /\ EscHeld /\ CheckOK /\ NoSleepOnData /\ AskedOK

-----------------------------------------------------------------------------
(* Helpers.                                                                *)

(* What passing bytes on puts in the output.                               *)
LEMMA PassedItems ==
    ASSUME NEW s \in Seq(Byte)
    PROVE  /\ Passed(s) \in Seq(Item)
           /\ Len(Passed(s)) = Len(s)
           /\ \A i \in 1 .. Len(s) :
                 Passed(s)[i].kind = "byte" /\ Passed(s)[i].bytes = <<s[i]>>
<1>1. \A i \in 1 .. Len(s) :
         [kind |-> "byte", held |-> {}, bytes |-> <<s[i]>>] \in Item
  BY DEF Item
<1> QED BY <1>1 DEF Passed

(* What a mouse event is.                                                  *)
EventOK(event) ==
    /\ event.kind \in {"down", "up", "move"}
    /\ event.held \in SUBSET Button
    /\ event.now \in SUBSET Button

(* What a report is: an item for the event and the rest of its bytes.      *)
IsReport(items, event, bytes) ==
    /\ items \in Seq(Item) /\ Len(items) = ReportLen
    /\ items[1].kind = event.kind /\ items[1].held = event.held
    /\ items[1].bytes = bytes
    /\ \A i \in 2 .. ReportLen : items[i].kind = "more" /\ items[i].bytes = <<>>

(* Report puts that in the output.                                         *)
LEMMA ReportItems ==
    ASSUME NEW event, EventOK(event), NEW bytes \in Seq(Byte)
    PROVE  IsReport(Report(event, bytes), event, bytes)
<1> USE DEF EventOK, IsReport
<1>1. ReportLen \in Nat \ {0}
  BY FilterAssumption
<1>2. [kind |-> event.kind, held |-> event.held, bytes |-> bytes] \in Item
  BY DEF Item
<1>3. [kind |-> "more", held |-> {}, bytes |-> <<>>] \in Item
  BY DEF Item
<1> QED BY <1>1, <1>2, <1>3 DEF Report

(* transfer keeps the types and only adds to the output.                   *)
LEMMA TransferTypes ==
    ASSUME TypeOK, NEW n \in 0 .. Len(buffer), transfer(n)
    PROVE  /\ out' \in Seq(Item) /\ Len(out') = Len(out) + n
           /\ buffer' \in Seq(Byte) /\ Len(buffer') = Len(buffer) - n
           /\ SubSeq(buffer, 1, n) \in Seq(Byte)
           /\ Len(SubSeq(buffer, 1, n)) = n
<1>1. buffer \in Seq(Byte) /\ out \in Seq(Item) /\ Len(buffer) \in Nat
  BY DEF TypeOK
<1>2. SubSeq(buffer, 1, n) \in Seq(Byte) /\ Len(SubSeq(buffer, 1, n)) = n
  BY <1>1
<1>3. /\ SubSeq(buffer, n + 1, Len(buffer)) \in Seq(Byte)
      /\ Len(SubSeq(buffer, n + 1, Len(buffer))) = Len(buffer) - n
  BY <1>1
<1>4. Passed(SubSeq(buffer, 1, n)) \in Seq(Item) /\ Len(Passed(SubSeq(buffer, 1, n))) = n
  BY <1>2, PassedItems
<1> DEFINE p == Passed(SubSeq(buffer, 1, n))
<1>5. out' = out \o p /\ buffer' = SubSeq(buffer, n + 1, Len(buffer))
  BY DEF transfer
<1>6. p \in Seq(Item) /\ Len(p) = n
  BY <1>4
<1> HIDE DEF p
<1>7. out' \in Seq(Item) /\ Len(out') = Len(out) + n
  BY <1>1, <1>5, <1>6, ConcatProperties
<1> QED BY <1>2, <1>3, <1>5, <1>7

(* The bytes before the next escape.                                       *)
LEMMA PlainCount ==
    ASSUME TypeOK, buffer # <<>>, Head(buffer) # "esc", NEW esc,
           esc = SelectInSeq(buffer, LAMBDA b : b = "esc")
    PROVE  (IF esc = 0 THEN Len(buffer) ELSE esc - 1) \in 1 .. Len(buffer)
<1> DEFINE I == {i \in 1 .. Len(buffer) : buffer[i] = "esc"}
<1>1. buffer \in Seq(Byte) /\ Len(buffer) \in Nat /\ Len(buffer) > 0
  BY DEF TypeOK
<1>2. esc = IF I # {} THEN Min(I) ELSE 0
  BY DEF SelectInSeq
<1>3. 1 \notin I
  BY <1>1
<1>4. I \in SUBSET Nat /\ I \subseteq 1 .. Len(buffer)
  BY <1>1
<1> HIDE DEF I
<1>5. CASE I = {}
  BY <1>1, <1>2, <1>5
<1>6. CASE I # {}
  <2>1. Min(I) \in I
    BY <1>4, <1>6, MinOfNats
  <2> QED BY <1>1, <1>2, <1>3, <1>4, <1>6, <2>1
<1> QED BY <1>5, <1>6

(* What a report says, and the buttons after it.                           *)
LEMMA EventTypes ==
    ASSUME TypeOK, NEW b
    PROVE  /\ EventOK(MouseEvent(b))
           /\ MouseEvent(b).kind = "down" =>
                 MouseEvent(b).now = buttons \cup MouseEvent(b).held
           /\ MouseEvent(b).kind = "up" =>
                 MouseEvent(b).now = {} /\ MouseEvent(b).held = buttons
           /\ MouseEvent(b).kind = "move" =>
                 MouseEvent(b).now = buttons /\ MouseEvent(b).held = buttons
<1> USE DEF EventOK
<1>1. buttons \in SUBSET Button
  BY DEF TypeOK
<1>2. CASE b = " "
  <2>1. MouseEvent(b) =
           [kind |-> "down", held |-> {"select"}, now |-> buttons \cup {"select"}]
    BY <1>2 DEF MouseEvent
  <2> QED BY <1>1, <2>1 DEF Button
<1>3. CASE b = "!"
  <2>1. MouseEvent(b) =
           [kind |-> "down", held |-> {"adjust"}, now |-> buttons \cup {"adjust"}]
    BY <1>3 DEF MouseEvent
  <2> QED BY <1>1, <2>1 DEF Button
<1>4. CASE b = "#"
  <2>1. MouseEvent(b) = [kind |-> "up", held |-> buttons, now |-> {}]
    BY <1>4 DEF MouseEvent
  <2> QED BY <1>1, <2>1
<1>5. CASE b # " " /\ b # "!" /\ b # "#"
  <2>1. MouseEvent(b) = [kind |-> "move", held |-> buttons, now |-> buttons]
    BY <1>5 DEF MouseEvent
  <2> QED BY <1>1, <2>1
<1> QED BY <1>2, <1>3, <1>4, <1>5

(* A recognized report: six bytes leave the buffer, ReportLen enter the    *)
(* output.                                                                 *)
LEMMA RecognizedTypes ==
    ASSUME TypeOK, EscRecognized
    PROVE  /\ out' \in Seq(Item) /\ Len(out') = Len(out) + ReportLen
           /\ buffer' \in Seq(Byte)
           /\ buttons' \in SUBSET Button
           /\ SubSeq(buffer, 1, 6) \in Seq(Byte)
<1> DEFINE event == MouseEvent(buffer[4])
<1>1. buffer \in Seq(Byte) /\ out \in Seq(Item) /\ Len(buffer) \in Nat /\ Len(buffer) >= 6
  BY DEF TypeOK, EscRecognized, Recognized
<1>2. SubSeq(buffer, 1, 6) \in Seq(Byte) /\ SubSeq(buffer, 7, Len(buffer)) \in Seq(Byte)
  BY <1>1
<1>3. EventOK(event)
  BY EventTypes
<1>4. /\ out' = out \o Report(event, SubSeq(buffer, 1, 6))
      /\ buttons' = event.now /\ buffer' = SubSeq(buffer, 7, Len(buffer))
  BY DEF EscRecognized
<1> HIDE DEF event
<1> DEFINE p == Report(event, SubSeq(buffer, 1, 6))
<1>5. IsReport(p, event, SubSeq(buffer, 1, 6))
  BY <1>2, <1>3, ReportItems, Zenon
<1>6. p \in Seq(Item) /\ Len(p) = ReportLen
  BY <1>5 DEF IsReport
<1>7. out' = out \o p
  BY <1>4
<1> HIDE DEF p
<1>8. out' \in Seq(Item) /\ Len(out') = Len(out) + ReportLen
  BY <1>1, <1>6, <1>7, ConcatProperties
<1>9. buttons' \in SUBSET Button
  BY <1>3, <1>4 DEF EventOK
<1> QED BY <1>2, <1>4, <1>8, <1>9

-----------------------------------------------------------------------------
(* The loop.                                                               *)

(* Every read ends the same way.                                           *)
LEMMA ReturnTypes ==
    ASSUME TypeOK, NEW status \in {"none", "ok", "EINTR", "stale", "error"},
           NEW n \in 0 .. Len(out) - taken, Return(status, n), UNCHANGED parser,
           sigs' \in 0 .. MaxSigs
    PROVE  TypeOK'
<1>1. taken' \in 0 .. Len(out')
  BY DEF TypeOK, Return, parser
<1>2. rc' \in [min : Nat, max : Nat, timed : BOOLEAN, dev : BOOLEAN,
                   asked : Nat, cut : BOOLEAN]
  BY DEF Return, NoCall
<1>3. result' \in [status : {"none", "ok", "EINTR", "stale", "error"}, n : Nat]
  <2>1. n \in Nat
    BY DEF TypeOK
  <2> QED BY <2>1 DEF Return
<1> QED BY <1>1, <1>2, <1>3 DEF TypeOK, Return, parser

(* So do the types of every step.                                          *)
LEMMA TypeKept ==
    ASSUME TypeOK, [Next]_vars
    PROVE  TypeOK'
<1> USE FilterAssumption
<1>1. CASE Tick
  BY <1>1 DEF Tick, TypeOK, Less, signals
<1>2. CASE Signal
  <2>1. CASE pc = "asleep"
    <3>1. Return("EINTR", 0) /\ UNCHANGED parser /\ sigs' \in 0 .. MaxSigs
      BY <1>2, <2>1 DEF Signal, TypeOK
    <3>2. 0 \in 0 .. Len(out) - taken
      BY DEF TypeOK
    <3> QED BY <3>1, <3>2, ReturnTypes
  <2>2. CASE pc # "asleep"
    <3>1. /\ UNCHANGED <<typed, nread, parser, taken, pc, first, sleep, call, result>>
          /\ sigs < MaxSigs /\ sigs' = sigs + 1
      BY <1>2, <2>2 DEF Signal
    <3>2. sig' = TRUE
      BY <1>2, <2>2 DEF Signal
    <3>3. sigs' \in 0 .. MaxSigs
      BY <3>1 DEF TypeOK
    <3>4. sig' \in BOOLEAN
      BY <3>2
    <3> QED BY <3>1, <3>3, <3>4 DEF TypeOK, parser, sleep, call
  <2> QED BY <2>1, <2>2
<1>3. ASSUME NEW vmin \in Nat, NEW vtime \in Nat, NEW n \in Nat, NEW dev \in BOOLEAN,
             NEW want \in Nat, NEW cut \in BOOLEAN,
             BeginRead(vmin, vtime, n, dev, want, cut)
      PROVE  TypeOK'
  <2>1. /\ rc' \in [min : Nat, max : Nat, timed : BOOLEAN, dev : BOOLEAN,
                   asked : Nat, cut : BOOLEAN]
        /\ rcLeft' \in Nat
    BY <1>3 DEF BeginRead, setup
  <2>2. result' \in [status : {"none", "ok", "EINTR", "stale", "error"}, n : Nat]
    BY <1>3 DEF BeginRead
  <2> QED BY <1>3, <2>1, <2>2 DEF BeginRead, TypeOK, parser, sleep, signals
<1>4. CASE \E vmin \in Vmins, vtime \in Vtimes, n \in Sizes : read(vmin, vtime, n)
  <2>1. PICK vmin \in Vmins, vtime \in Vtimes, n \in Sizes : read(vmin, vtime, n)
    BY <1>4
  <2>2. vmin \in Nat /\ vtime \in Nat /\ n \in Nat /\ Asked(vmin, vtime) \in Nat
    BY DEF Asked
  <2> QED BY <1>3, <2>1, <2>2 DEF read
<1>5. CASE \E timeout, time \in Times, minimum \in Minimums, n \in Sizes :
              dev_read(timeout, time, minimum, n)
  <2>1. PICK timeout \in Times, time \in Times, minimum \in Minimums, n \in Sizes :
               dev_read(timeout, time, minimum, n)
    BY <1>5
  <2>2. /\ cc(timeout) \in Nat /\ cc(time) \in Nat /\ cc(minimum) \in Nat /\ n \in Nat
        /\ Asked(0, timeout) \in Nat /\ Asked(minimum, time) \in Nat
    BY DEF cc, Asked
  <2> QED BY <1>3, <2>1, <2>2 DEF dev_read
<1>6. CASE Preempted
  <2>1. /\ Return("EINTR", 0) \/ Return("stale", 0)
        /\ UNCHANGED parser /\ sigs' \in 0 .. MaxSigs
    BY <1>6 DEF Preempted, TypeOK
  <2>2. 0 \in 0 .. Len(out) - taken
    BY DEF TypeOK
  <2> QED BY <2>1, <2>2, ReturnTypes
<1>7. CASE StartProcess
  BY <1>7 DEF StartProcess, TypeOK, parser, sleep, call, signals
<1> DEFINE Rest == /\ typed \in Seq(Byte) /\ nread \in 0 .. Len(typed)
                   /\ taken \in 0 .. Len(out)
                   /\ first \in BOOLEAN
                   /\ mode \in {"poll0", "poll", "read"} /\ pollLeft \in Nat
                   /\ rc \in [min : Nat, max : Nat, timed : BOOLEAN, dev : BOOLEAN,
                              asked : Nat, cut : BOOLEAN]
                   /\ rcLeft \in Nat
                   /\ sig \in BOOLEAN /\ sigs \in 0 .. MaxSigs
                   /\ result \in [status : {"none", "ok", "EINTR", "stale", "error"}, n : Nat]
<1>8. ASSUME InProcess, Len(out') \in Nat, Len(out') >= Len(out) PROVE Rest'
  BY <1>8 DEF TypeOK, InProcess, sleep, call, signals
<1>9. CASE TransferPlain
  <2> DEFINE esc == SelectInSeq(buffer, LAMBDA b : b = "esc")
             n == IF esc = 0 THEN Len(buffer) ELSE esc - 1
  <2>1. transfer(n) /\ InProcess /\ buffer # <<>> /\ Head(buffer) # "esc"
    BY <1>9 DEF TransferPlain
  <2>2. n \in 1 .. Len(buffer)
    BY <2>1, PlainCount
  <2>3. pc' = pc /\ waiting' = waiting /\ escLeft' = escLeft /\ buttons' = buttons
    BY <1>9 DEF TransferPlain
  <2> HIDE DEF n, esc
  <2>4. n \in 0 .. Len(buffer) /\ Len(out) \in Nat /\ Len(out) + n \in Nat
    BY <2>2 DEF TypeOK
  <2>5. out' \in Seq(Item) /\ Len(out') = Len(out) + n /\ buffer' \in Seq(Byte)
    BY <2>1, <2>4, TransferTypes
  <2>6. Rest'
    BY <1>8, <2>1, <2>4, <2>5
  <2> QED BY <2>3, <2>5, <2>6 DEF TypeOK
<1>10. CASE ProcessDone
  BY <1>10 DEF ProcessDone, InProcess, TypeOK, parser, sleep, call, signals
<1>11. CASE EscRecognized
  <2>1. /\ out' \in Seq(Item) /\ Len(out') = Len(out) + ReportLen
        /\ buffer' \in Seq(Byte) /\ buttons' \in SUBSET Button
    BY <1>11, RecognizedTypes
  <2>2. InProcess /\ pc' = pc /\ waiting' = FALSE /\ escLeft' = 0
    BY <1>11 DEF EscRecognized, AtEscape
  <2>3. Len(out) \in Nat
    BY DEF TypeOK
  <2>4. Rest'
    BY <1>8, <2>1, <2>2, <2>3
  <2>5. waiting' \in BOOLEAN /\ escLeft' \in 0 .. EscTimeout
    <3>1. waiting' \in BOOLEAN
      BY <2>2, Zenon
    <3>2. escLeft' \in 0 .. EscTimeout
      BY <2>2
    <3> QED BY <3>1, <3>2
  <2>6. pc' \in {"idle", "top", "process", "check", "enter", "asleep"}
    BY <2>2 DEF TypeOK
  <2> QED BY <2>1, <2>4, <2>5, <2>6 DEF TypeOK
<1>12. ASSUME AtEscape, transfer(1) PROVE Rest' /\ out' \in Seq(Item) /\ buffer' \in Seq(Byte)
  <2>1. 1 \in 0 .. Len(buffer) /\ InProcess /\ Len(out) \in Nat
    BY <1>12 DEF AtEscape, TypeOK
  <2>2. out' \in Seq(Item) /\ Len(out') = Len(out) + 1 /\ buffer' \in Seq(Byte)
    BY <1>12, <2>1, TransferTypes
  <2> QED BY <1>8, <2>1, <2>2
<1>13. CASE EscUnknown
  <2>1. Rest' /\ out' \in Seq(Item) /\ buffer' \in Seq(Byte)
    BY <1>12, <1>13 DEF EscUnknown
  <2>2. waiting' \in BOOLEAN /\ escLeft' \in 0 .. EscTimeout
    <3>1. waiting' \in BOOLEAN
      BY <1>13, Zenon DEF EscUnknown
    <3>2. escLeft' \in 0 .. EscTimeout
      BY <1>13 DEF EscUnknown
    <3> QED BY <3>1, <3>2
  <2>3. pc' = pc /\ buttons' = buttons
    BY <1>13 DEF EscUnknown
  <2> QED BY <2>1, <2>2, <2>3 DEF TypeOK
<1>14. CASE EscExpired
  <2>1. Rest' /\ out' \in Seq(Item) /\ buffer' \in Seq(Byte)
    BY <1>12, <1>14 DEF EscExpired
  <2> QED BY <1>14, <2>1 DEF EscExpired, TypeOK
<1>15. CASE EscStartsWait
  BY <1>15 DEF EscStartsWait, AtEscape, InProcess, TypeOK, sleep, call, signals
<1>16. CASE EscWaits
  BY <1>16 DEF EscWaits, AtEscape, InProcess, TypeOK, parser, sleep, call, signals
<1>17. CASE ReplyData
  <2> DEFINE n == nbytes
  <2>1. Return("ok", n) /\ UNCHANGED parser /\ sigs' \in 0 .. MaxSigs
    BY <1>17 DEF ReplyData, TypeOK
  <2>2. ReadySize \in Nat /\ rc.max \in Nat
    BY DEF TypeOK, ReadySize
  <2>3. n \in 0 .. Len(out) - taken
    <3>1. n = IF ReadySize <= rc.max THEN ReadySize ELSE rc.max
      BY <2>2, MinOfTwo DEF nbytes
    <3> QED BY <2>2, <3>1 DEF ReadySize
  <2> HIDE DEF n
  <2> QED BY <2>1, <2>3, ReturnTypes
<1>18. CASE ChooseWait
  <2>1. mode' \in {"poll0", "poll", "read"}
    BY <1>18 DEF ChooseWait
  <2>2. pollLeft' \in Nat
    <3>1. CASE mode' # "poll"
      BY <1>18, <3>1 DEF ChooseWait
    <3>2. CASE mode' = "poll"
      <4>1. deadline # {} /\ pollLeft' = Max(deadline)
        BY <1>18, <3>2 DEF ChooseWait
      <4>2. \E k \in Nat : deadline = {k}
        <5>1. rcLeft \in Nat /\ escLeft \in Nat
          BY DEF TypeOK
        <5>2. deadline = {rcLeft} \/ deadline = {escLeft}
          BY <4>1 DEF deadline
        <5> QED BY <5>1, <5>2
      <4>3. PICK k \in Nat : deadline = {k, k}
        BY <4>2
      <4>4. Max({k, k}) = k
        BY MaxOfTwo
      <4> QED BY <4>1, <4>3, <4>4
    <3> QED BY <3>1, <3>2
  <2> QED BY <1>18, <2>1, <2>2 DEF ChooseWait, TypeOK, parser, call, signals
<1>19. CASE FallAsleep
  BY <1>19 DEF FallAsleep, TypeOK, parser, sleep, call, signals
<1>20. CASE PollTimesOut
  BY <1>20 DEF PollTimesOut, TypeOK, parser, call, signals
<1>21. CASE HostFails
  <2>1. Return("error", 0) /\ UNCHANGED parser /\ sigs' \in 0 .. MaxSigs
    BY <1>21 DEF HostFails, TypeOK
  <2>2. 0 \in 0 .. Len(out) - taken
    BY DEF TypeOK
  <2> QED BY <2>1, <2>2, ReturnTypes
<1>22. ASSUME NEW n \in 0 .. Min({Len(typed) - nread, ReadMax}), HostRead(n)
       PROVE  TypeOK'
  <2>1. Len(typed) - nread \in Int /\ nread \in Nat /\ Len(typed) \in Nat
    BY DEF TypeOK
  <2>2. n \in 0 .. Len(typed) - nread
    BY <1>22, <2>1, MinOfTwo
  <2>3. SubSeq(typed, nread + 1, nread + n) \in Seq(Byte)
    BY <2>1, <2>2 DEF TypeOK
  <2>4. buffer' \in Seq(Byte)
    BY <1>22, <2>3, ConcatProperties DEF HostRead, TypeOK
  <2>5. typed' \in Seq(Byte) /\ nread' \in 0 .. Len(typed')
    BY <1>22, <2>1, <2>2 DEF HostRead, TypeOK
  <2> QED BY <1>22, <2>4, <2>5 DEF HostRead, TypeOK, call, signals
<1>23. CASE UNCHANGED vars
  BY <1>23 DEF vars, TypeOK
<1> QED BY <1>1, <1>2, <1>4, <1>5, <1>6, <1>7, <1>9, <1>10, <1>11, <1>13, <1>14,
           <1>15, <1>16, <1>17, <1>18, <1>19, <1>20, <1>21, <1>22, <1>23
        DEF Next, common_read, process

(* What is read from the host does not change the head of the buffer.      *)
LEMMA HeadOfConcat ==
    ASSUME NEW s \in Seq(Byte), NEW t \in Seq(Byte), s # <<>>
    PROVE  s \o t # <<>> /\ Head(s \o t) = Head(s)
<1>1. Len(s) \in Nat \ {0} /\ Len(s \o t) = Len(s) + Len(t) /\ Len(t) \in Nat
  OBVIOUS
<1>2. (s \o t)[1] = s[1] /\ s \o t \in Seq(Byte)
  BY <1>1
<1> QED BY <1>1, <1>2

(* What the host's read gives.                                             *)
LEMMA HostBytes ==
    ASSUME TypeOK, NEW n \in 0 .. Min({Len(typed) - nread, ReadMax})
    PROVE  /\ n \in 0 .. Len(typed) - nread
           /\ SubSeq(typed, nread + 1, nread + n) \in Seq(Byte)
<1>1. Len(typed) - nread \in Int /\ nread \in Nat /\ Len(typed) \in Nat /\ ReadMax \in Int
  BY FilterAssumption DEF TypeOK
<1>2. n \in 0 .. Len(typed) - nread
  BY <1>1, MinOfTwo
<1> QED BY <1>1, <1>2 DEF TypeOK

(* The escape that is waited for stays where it is.                        *)
LEMMA EscHeldKept ==
    ASSUME TypeOK, EscHeld, [Next]_vars
    PROVE  EscHeld'
<1>1. CASE UNCHANGED <<buffer, waiting>>
  BY <1>1 DEF EscHeld
<1>2. CASE TransferPlain
  <2>1. ~waiting /\ waiting' = waiting
    BY <1>2 DEF TransferPlain, EscHeld
  <2> QED BY <2>1 DEF EscHeld
<1>3. CASE EscRecognized \/ EscUnknown \/ EscExpired
  BY <1>3 DEF EscRecognized, EscUnknown, EscExpired, EscHeld
<1>4. CASE EscStartsWait
  BY <1>4 DEF EscStartsWait, AtEscape, EscHeld
<1>5. ASSUME NEW n \in 0 .. Min({Len(typed) - nread, ReadMax}), HostRead(n)
      PROVE  EscHeld'
  <2> DEFINE new == SubSeq(typed, nread + 1, nread + n)
  <2>1. new \in Seq(Byte) /\ buffer \in Seq(Byte)
    BY HostBytes DEF TypeOK
  <2>2. buffer' = buffer \o new /\ waiting' = waiting
    BY <1>5 DEF HostRead
  <2> HIDE DEF new
  <2>3. buffer # <<>> => buffer' # <<>> /\ Head(buffer') = Head(buffer)
    BY <2>1, <2>2, HeadOfConcat
  <2> QED BY <2>2, <2>3 DEF EscHeld
<1>6. CASE \/ Tick \/ Signal \/ Preempted \/ StartProcess \/ ProcessDone \/ EscWaits
           \/ ReplyData \/ ChooseWait \/ FallAsleep \/ PollTimesOut \/ HostFails
           \/ UNCHANGED vars
  BY <1>1, <1>6 DEF Tick, Signal, Preempted, StartProcess, ProcessDone, EscWaits,
     ReplyData, ChooseWait, FallAsleep, PollTimesOut, HostFails, vars, parser
<1>7. CASE \/ \E vmin \in Vmins, vtime \in Vtimes, n \in Sizes : read(vmin, vtime, n)
           \/ \E timeout, time \in Times, minimum \in Minimums, n \in Sizes :
                 dev_read(timeout, time, minimum, n)
  BY <1>1, <1>7 DEF read, dev_read, BeginRead, parser
<1> QED BY <1>2, <1>3, <1>4, <1>5, <1>6, <1>7 DEF Next, common_read, process

(* process returns only with an empty buffer or an escape that has time.   *)
LEMMA CheckKept ==
    ASSUME TypeOK, EscHeld, CheckOK, [Next]_vars
    PROVE  CheckOK'
<1>1. CASE pc' # "check"
  BY <1>1 DEF CheckOK
<1>2. CASE ProcessDone
  BY <1>2 DEF ProcessDone, CheckOK, EscHeld, parser
<1>3. CASE EscWaits
  <2>1. waiting' /\ Incomplete' /\ escLeft' = escLeft /\ escLeft # 0
    BY <1>3 DEF EscWaits, parser, Incomplete, EscOver
  <2>2. escLeft' > 0
    BY <2>1 DEF TypeOK
  <2> QED BY <2>1, <2>2 DEF CheckOK
<1>4. CASE UNCHANGED vars
  BY <1>4 DEF vars, CheckOK, Incomplete
<1>5. CASE \/ Tick \/ Signal \/ Preempted \/ StartProcess
           \/ ReplyData \/ ChooseWait \/ FallAsleep \/ PollTimesOut \/ HostFails
  BY <1>1, <1>5 DEF Tick, Signal, Preempted, StartProcess,
     ReplyData, ChooseWait, FallAsleep, PollTimesOut, HostFails, Return
<1>6. CASE TransferPlain \/ EscRecognized \/ EscUnknown \/ EscExpired \/ EscStartsWait
  BY <1>1, <1>6 DEF TransferPlain, EscRecognized, EscUnknown, EscExpired,
     EscStartsWait, AtEscape, InProcess
<1>7. CASE \/ \E vmin \in Vmins, vtime \in Vtimes, n \in Sizes : read(vmin, vtime, n)
           \/ \E timeout, time \in Times, minimum \in Minimums, n \in Sizes :
                 dev_read(timeout, time, minimum, n)
           \/ \E n \in 0 .. Min({Len(typed) - nread, ReadMax}) : HostRead(n)
  BY <1>1, <1>7 DEF read, dev_read, BeginRead, HostRead
<1> QED BY <1>2, <1>3, <1>4, <1>5, <1>6, <1>7 DEF Next, common_read, process

(* So it goes to sleep only when it has to.                                *)
LEMMA SleepKept ==
    ASSUME TypeOK, CheckOK, NoSleepOnData, [Next]_vars
    PROVE  NoSleepOnData'
<1>1. CASE pc' \notin {"enter", "asleep"}
  BY <1>1 DEF NoSleepOnData
<1>2. CASE ChooseWait
  <2> SUFFICES ASSUME rc.min > 0
               PROVE  NoSleepOnData'
    BY <1>2 DEF ChooseWait, call, NoSleepOnData
  <2>1. ReadySize \in Nat /\ rc.min \in Nat
    BY DEF TypeOK, ReadySize
  <2>2. ReadySize < rc.min
    BY <1>2, <2>1 DEF ChooseWait, Satisfied
  <2>3. ReadySize' = ReadySize /\ rc' = rc
    BY <1>2 DEF ChooseWait, ReadySize, parser, call
  <2>4. ASSUME buffer # <<>> PROVE mode' = "poll" /\ waiting' /\ Incomplete'
    <3>1. waiting /\ Incomplete
      BY <1>2, <2>4 DEF CheckOK, ChooseWait
    <3>2. deadline # {}
      BY <3>1 DEF deadline
    <3>3. mode' = "poll"
      BY <1>2, <2>1, <3>2 DEF ChooseWait
    <3> QED BY <1>2, <3>1, <3>3 DEF ChooseWait, parser, Incomplete
  <2>5. buffer' = buffer
    BY <1>2 DEF ChooseWait, parser
  <2> QED BY <2>2, <2>3, <2>4, <2>5 DEF NoSleepOnData
<1>3. CASE /\ UNCHANGED <<buffer, out, waiting, taken, rc, mode>>
           /\ pc \in {"enter", "asleep"}
  BY <1>3 DEF NoSleepOnData, ReadySize, Incomplete
<1>4. CASE FallAsleep
  BY <1>3, <1>4 DEF FallAsleep, parser, call, sleep
<1>5. CASE Tick \/ UNCHANGED vars
  <2>1. UNCHANGED <<buffer, out, waiting, taken, rc, mode, pc>>
    BY <1>5 DEF Tick, vars
  <2> QED BY <1>1, <1>3, <2>1
<1>6. CASE Signal
  <2>1. CASE pc = "asleep"
    BY <1>1, <1>6, <2>1 DEF Signal, Return
  <2>2. CASE pc # "asleep"
    <3>1. UNCHANGED <<buffer, out, waiting, taken, rc, mode, pc>>
      BY <1>6, <2>2 DEF Signal, parser, call, sleep
    <3> QED BY <1>1, <1>3, <3>1
  <2> QED BY <2>1, <2>2
<1>7. CASE \/ Preempted \/ StartProcess \/ ProcessDone \/ EscWaits
           \/ ReplyData \/ PollTimesOut \/ HostFails
  BY <1>1, <1>7 DEF Preempted, StartProcess, ProcessDone, EscWaits,
     ReplyData, PollTimesOut, HostFails, Return
<1>8. CASE TransferPlain \/ EscRecognized \/ EscUnknown \/ EscExpired \/ EscStartsWait
  BY <1>1, <1>8 DEF TransferPlain, EscRecognized, EscUnknown, EscExpired,
     EscStartsWait, AtEscape, InProcess
<1>9. CASE \/ \E vmin \in Vmins, vtime \in Vtimes, n \in Sizes : read(vmin, vtime, n)
           \/ \E timeout, time \in Times, minimum \in Minimums, n \in Sizes :
                 dev_read(timeout, time, minimum, n)
           \/ \E n \in 0 .. Min({Len(typed) - nread, ReadMax}) : HostRead(n)
  BY <1>1, <1>9 DEF read, dev_read, BeginRead, HostRead
<1> QED BY <1>2, <1>4, <1>5, <1>6, <1>7, <1>8, <1>9 DEF Next, common_read, process

(* The loop's invariant holds at the start.                                *)
LEMMA LoopInit == Init => LoopInv
<1> SUFFICES ASSUME Init PROVE LoopInv
  OBVIOUS
<1>1. TypeOK
  <2>1. typed \in Seq(Byte) /\ nread \in 0 .. Len(typed)
    BY FilterAssumption DEF Init
  <2>2. rc \in [min : Nat, max : Nat, timed : BOOLEAN, dev : BOOLEAN,
                asked : Nat, cut : BOOLEAN]
    BY DEF Init, NoCall
  <2>3. result \in [status : {"none", "ok", "EINTR", "stale", "error"}, n : Nat]
    BY DEF Init
  <2>4. waiting \in BOOLEAN /\ sig \in BOOLEAN /\ first \in BOOLEAN
    BY DEF Init
  <2>5. /\ escLeft \in 0 .. EscTimeout /\ sigs \in 0 .. MaxSigs
        /\ buffer \in Seq(Byte) /\ out \in Seq(Item) /\ taken \in 0 .. Len(out)
    BY FilterAssumption DEF Init
  <2> QED BY <2>1, <2>2, <2>3, <2>4, <2>5 DEF Init, TypeOK
<1>2. EscHeld /\ CheckOK /\ NoSleepOnData /\ AskedOK
  BY DEF Init, EscHeld, CheckOK, NoSleepOnData, AskedOK, NoCall
<1> QED BY <1>1, <1>2 DEF LoopInv

(* A request that was not cut down is read with what it asks for: setup    *)
(* and approximate, and nothing changes it during the read.                *)
LEMMA AskedKept == AskedOK /\ [Next]_vars => AskedOK'
<1> SUFFICES ASSUME AskedOK, [Next]_vars PROVE AskedOK'
  OBVIOUS
<1>1. CASE rc' = rc
  BY <1>1 DEF AskedOK
<1>2. CASE rc' = NoCall
  BY <1>2 DEF AskedOK, NoCall
<1>3. ASSUME NEW vmin, NEW vtime, NEW n, read(vmin, vtime, n) PROVE AskedOK'
  BY <1>3 DEF read, BeginRead, setup, Asked, AskedOK
<1>4. ASSUME NEW timeout, NEW time, NEW minimum, NEW n,
             dev_read(timeout, time, minimum, n)
      PROVE  AskedOK'
  <2>1. CASE timeout # 0
    <3>1. rc' = setup(0, cc(timeout), n, TRUE, Asked(0, timeout), timeout # cc(timeout))
      BY <1>4, <2>1 DEF dev_read, BeginRead
    <3>2. rc'.cut = (timeout # cc(timeout)) /\ rc'.asked = 1
          /\ rc'.min = IF cc(timeout) # 0 THEN 1 ELSE 0
      BY <2>1, <3>1 DEF setup, Asked
    <3> QED BY <2>1, <3>2 DEF AskedOK
  <2>2. CASE timeout = 0
    <3>1. rc' = setup(cc(minimum), cc(time), n, TRUE, Asked(minimum, time),
                      minimum # cc(minimum) \/ time # cc(time))
      BY <1>4, <2>2 DEF dev_read, BeginRead
    <3>2. /\ rc'.cut = (minimum # cc(minimum) \/ time # cc(time))
          /\ rc'.asked = IF time # 0 THEN 1 ELSE minimum
          /\ rc'.min = IF cc(time) # 0 THEN 1 ELSE cc(minimum)
      BY <3>1 DEF setup, Asked
    <3> QED BY <3>2 DEF AskedOK
  <2> QED BY <2>1, <2>2
<1>5. CASE Tick \/ StartProcess \/ ChooseWait \/ FallAsleep \/ PollTimesOut \/ UNCHANGED vars
  BY <1>1, <1>5 DEF Tick, StartProcess, ChooseWait, FallAsleep, PollTimesOut, call, vars
<1>6. CASE \/ TransferPlain \/ ProcessDone \/ EscRecognized \/ EscUnknown
           \/ EscExpired \/ EscStartsWait \/ EscWaits
  BY <1>1, <1>6 DEF TransferPlain, ProcessDone, EscRecognized, EscUnknown, EscExpired,
     EscStartsWait, EscWaits, AtEscape, InProcess, call
<1>7. CASE Signal \/ Preempted \/ ReplyData \/ HostFails
  BY <1>1, <1>2, <1>7 DEF Signal, Preempted, ReplyData, HostFails, Return, call
<1>8. CASE \E n \in 0 .. Min({Len(typed) - nread, ReadMax}) : HostRead(n)
  BY <1>1, <1>8 DEF HostRead, call
<1> QED BY <1>3, <1>4, <1>5, <1>6, <1>7, <1>8 DEF Next, common_read, process

(* It is an invariant of the filter.                                       *)
THEOREM Invariance == Spec => []LoopInv
<1>1. LoopInv /\ [Next]_vars => LoopInv'
  BY TypeKept, EscHeldKept, CheckKept, SleepKept, AskedKept DEF LoopInv
<1> QED BY LoopInit, <1>1, PTL DEF Spec

(* The state has its types, and the guest never gets more than there is:   *)
(* what it has taken is at most what is ready (common_read).               *)
THEOREM TypeCorrect == Spec => []TypeOK
<1>1. LoopInv => TypeOK
  BY DEF LoopInv
<1> QED BY Invariance, <1>1, PTL

(* A read sleeps only while it has not got its minimum, without a limit    *)
(* only when nothing is held back (common_read, process).                  *)
THEOREM NeverSleepsOnData == Spec => []NoSleepOnData
<1>1. LoopInv => NoSleepOnData
  BY DEF LoopInv
<1> QED BY Invariance, <1>1, PTL

(* A read that succeeds has what the guest asked for, or its own deadline  *)
(* is over, for requests whose fields fit c_cc; for the others it has what *)
(* is left of them: at "check" an escape that is held back has time left,  *)
(* so that the deadline that is over is the read's (common_read).          *)
THEOREM NeverShort == Spec => NoShortRead
<1> DEFINE Enough == \/ rc.timed /\ rcLeft = 0
                     \/ /\ result'.n >= Min({rc.min, rc.max})
                        /\ rc.cut \/ result'.n >= Min({rc.asked, rc.max})
           Full == pc # "idle" /\ pc' = "idle" /\ result'.status = "ok" => Enough
<1>1. LoopInv /\ [Next]_vars => [Full]_vars
  <2> SUFFICES ASSUME LoopInv, Next, pc # "idle", pc' = "idle", result'.status = "ok"
               PROVE  Enough
    OBVIOUS
  <2>1. ReplyData
    <3>1. ~Tick /\ ~StartProcess /\ ~ProcessDone /\ ~EscWaits /\ ~ChooseWait
          /\ ~FallAsleep /\ ~PollTimesOut
      BY DEF Tick, StartProcess, ProcessDone, EscWaits, ChooseWait, FallAsleep, PollTimesOut
    <3>2. ~TransferPlain /\ ~EscRecognized /\ ~EscUnknown /\ ~EscExpired /\ ~EscStartsWait
      BY DEF TransferPlain, EscRecognized, EscUnknown, EscExpired, EscStartsWait,
         AtEscape, InProcess
    <3>3. ~Signal /\ ~Preempted /\ ~HostFails
      BY DEF Signal, Preempted, HostFails, Return
    <3>4. \A vmin, vtime, n, dev, want, cut :
             ~BeginRead(vmin, vtime, n, dev, want, cut)
      BY DEF BeginRead
    <3>5. \A n : ~HostRead(n)
      BY DEF HostRead
    <3> QED BY <3>1, <3>2, <3>3, <3>4, <3>5 DEF Next, common_read, process, read, dev_read
  <2>2. ReadySize \in Nat /\ rc.max \in Nat /\ rc.min \in Nat
    BY DEF LoopInv, TypeOK, ReadySize
  <2>3. CASE Satisfied
    <3>1. result'.n = Min({ReadySize, rc.max})
      BY <2>1 DEF ReplyData, Return, nbytes
    <3>2. result'.n = IF ReadySize <= rc.max THEN ReadySize ELSE rc.max
      BY <2>2, <3>1, MinOfTwo
    <3>3. Min({rc.min, rc.max}) = IF rc.min <= rc.max THEN rc.min ELSE rc.max
      BY <2>2, MinOfTwo
    <3>4. result'.n >= Min({rc.min, rc.max})
      BY <2>2, <2>3, <3>2, <3>3 DEF Satisfied
    <3>5. rc.cut \/ rc.asked = rc.min
      BY DEF LoopInv, AskedOK
    <3> QED BY <3>4, <3>5
  <2>4. CASE DeadlineOver
    <3>1. pc = "check" /\ CheckOK
      BY <2>1 DEF ReplyData, LoopInv
    <3>2. waiting => 0 # escLeft
      BY <3>1 DEF CheckOK
    <3> QED BY <2>4, <3>2 DEF DeadlineOver, deadline
  <2> QED BY <2>1, <2>3, <2>4 DEF ReplyData
<1> QED BY Invariance, <1>1, PTL DEF Spec, NoShortRead

-----------------------------------------------------------------------------
(* Nothing is lost.                                                        *)

(* The bytes of items, one after the other.                                *)
LEMMA BytesConcat ==
    ASSUME NEW s \in Seq(Item), NEW t \in Seq(Item)
    PROVE  /\ Bytes(s) \in Seq(Seq(Byte)) /\ Bytes(t) \in Seq(Seq(Byte))
           /\ Bytes(s \o t) = Bytes(s) \o Bytes(t)
<1>1. ASSUME NEW u \in Seq(Item)
      PROVE  Bytes(u) \in Seq(Seq(Byte)) /\ Len(Bytes(u)) = Len(u)
  <2>1. \A i \in 1 .. Len(u) : u[i].bytes \in Seq(Byte)
    <3>1. \A x \in Item : x.bytes \in Seq(Byte)
      BY DEF Item
    <3>2. \A i \in 1 .. Len(u) : u[i] \in Item
      BY ElementOfSeq
    <3> QED BY <3>1, <3>2
  <2>2. Len(u) \in Nat /\ Bytes(u) \in [1 .. Len(u) -> Seq(Byte)]
    BY <2>1 DEF Bytes
  <2>3. Bytes(u) \in Seq(Seq(Byte))
    BY <2>2, SeqDef, SMTT(30)
  <2> QED BY <2>2, <2>3
<1>2. s \o t \in Seq(Item) /\ Len(s \o t) = Len(s) + Len(t)
  BY ConcatProperties
<1> DEFINE bs == Bytes(s)
           bt == Bytes(t)
           bst == Bytes(s \o t)
           cat == bs \o bt
           st == s \o t
<1>3. /\ bs \in Seq(Seq(Byte)) /\ bt \in Seq(Seq(Byte)) /\ bst \in Seq(Seq(Byte))
      /\ Len(bs) = Len(s) /\ Len(bt) = Len(t) /\ Len(bst) = Len(s) + Len(t)
  BY <1>1, <1>2
<1>4. /\ cat \in Seq(Seq(Byte)) /\ Len(cat) = Len(bs) + Len(bt)
      /\ \A i \in 1 .. Len(bs) + Len(bt) :
            cat[i] = IF i <= Len(bs) THEN bs[i] ELSE bt[i - Len(bs)]
  <2>1. \A u, v \in Seq(Seq(Byte)) :
           /\ u \o v \in Seq(Seq(Byte)) /\ Len(u \o v) = Len(u) + Len(v)
           /\ \A i \in 1 .. Len(u) + Len(v) :
                 (u \o v)[i] = IF i <= Len(u) THEN u[i] ELSE v[i - Len(u)]
    BY ConcatProperties
  <2> HIDE DEF bs, bt
  <2> QED BY <1>3, <2>1, Zenon
<1>5. \A i \in 1 .. Len(s) + Len(t) :
         st[i] = IF i <= Len(s) THEN s[i] ELSE t[i - Len(s)]
  BY ConcatProperties
<1>6. /\ \A i \in 1 .. Len(s) : bs[i] = s[i].bytes
      /\ \A i \in 1 .. Len(t) : bt[i] = t[i].bytes
      /\ \A i \in 1 .. Len(s) + Len(t) : bst[i] = st[i].bytes
  BY <1>2 DEF Bytes
<1>7. Len(s) \in Nat /\ Len(t) \in Nat
  OBVIOUS
<1> HIDE DEF bs, bt, bst, cat, st
<1>8. ASSUME NEW i \in 1 .. Len(s) + Len(t) PROVE bst[i] = cat[i]
  <2>1. CASE i <= Len(s)
    <3>1. cat[i] = bs[i] /\ st[i] = s[i] /\ i \in 1 .. Len(s)
      BY <1>3, <1>4, <1>5, <1>7, <2>1
    <3> QED BY <1>6, <3>1
  <2>2. CASE i > Len(s)
    <3>1. i - Len(s) \in 1 .. Len(t)
      BY <1>7, <2>2
    <3>2. cat[i] = bt[i - Len(s)] /\ st[i] = t[i - Len(s)]
      BY <1>3, <1>4, <1>5, <1>7, <2>2
    <3> QED BY <1>6, <3>1, <3>2
  <2> QED BY <1>7, <2>1, <2>2
<1>9. bst = cat
  BY <1>3, <1>4, <1>8, SeqEqual
<1> QED BY <1>3, <1>9 DEF bs, bt, bst, cat

(* The bytes passed on are these bytes.                                    *)
LEMMA FlatPassed ==
    ASSUME NEW s \in Seq(Byte)
    PROVE  FlattenSeq(Bytes(Passed(s))) = s
<1> DEFINE P == {t \in Seq(Byte) : FlattenSeq(Bytes(Passed(t))) = t}
<1>1. <<>> \in P
  <2>1. Bytes(Passed(<<>>)) = <<>>
    BY DEF Bytes, Passed
  <2>2. <<>> \in Seq(Byte)
    BY EmptySeq
  <2> QED BY <2>1, <2>2, FlattenEmpty, Zenon
<1>2. ASSUME NEW t \in Seq(Byte), NEW e \in Byte, t \in P PROVE Append(t, e) \in P
  <2> DEFINE u == Append(t, e)
             n == Len(t)
  <2>1. /\ u \in Seq(Byte) /\ n \in Nat /\ Len(u) = n + 1
        /\ \A i \in 1 .. n : u[i] = t[i]
        /\ u[n + 1] = e
    OBVIOUS
  <2>2. Bytes(Passed(u)) = Append(Bytes(Passed(t)), <<e>>)
    <3> HIDE DEF u, n
    <3>1. ASSUME NEW v \in Seq(Byte)
          PROVE  Bytes(Passed(v)) = [i \in 1 .. Len(v) |-> <<v[i]>>]
      <4>1. Len(Passed(v)) = Len(v) /\ \A i \in 1 .. Len(v) : Passed(v)[i].bytes = <<v[i]>>
        BY PassedItems
      <4> QED BY <4>1 DEF Bytes
    <3> DEFINE bt == Bytes(Passed(t))
    <3>2. bt = [i \in 1 .. n |-> <<t[i]>>]
      BY <3>1 DEF n
    <3>3. \A i \in 1 .. n : <<t[i]>> \in Seq(Byte)
      BY DEF n
    <3>4. bt \in Seq(Seq(Byte)) /\ Len(bt) = n
      BY <2>1, <3>2, <3>3
    <3>5. Append(bt, <<e>>) = [i \in 1 .. n + 1 |-> IF i <= n THEN bt[i] ELSE <<e>>]
      BY <2>1, <3>4
    <3>6. Bytes(Passed(u)) = [i \in 1 .. n + 1 |-> <<u[i]>>]
      BY <2>1, <3>1
    <3>7. \A i \in 1 .. n + 1 : <<u[i]>> = IF i <= n THEN bt[i] ELSE <<e>>
      BY <2>1, <3>2
    <3> HIDE DEF bt
    <3> QED BY <3>5, <3>6, <3>7 DEF bt
  <2>3. Bytes(Passed(t)) \in Seq(Seq(Byte)) /\ <<e>> \in Seq(Byte)
    <3>1. Passed(t) \in Seq(Item)
      BY PassedItems
    <3> QED BY <3>1, BytesConcat
  <2>4. FlattenSeq(Bytes(Passed(u))) = FlattenSeq(Bytes(Passed(t))) \o <<e>>
    BY <2>2, <2>3, FlattenAppend
  <2>5. FlattenSeq(Bytes(Passed(t))) = t
    BY <1>2, Zenon
  <2>6. t \o <<e>> = u
    BY AppendIsConcat
  <2>7. FlattenSeq(Bytes(Passed(u))) = u
    BY <2>4, <2>5, <2>6
  <2> HIDE DEF u
  <2>8. u \in P
    BY <2>1, <2>7, Zenon
  <2> QED BY <2>8 DEF u
<1> HIDE DEF P
<1>3. s \in P
  BY <1>1, <1>2, SeqSetInduction
<1> QED BY <1>3, Zenon DEF P

(* A report stands for the bytes it replaces.                              *)
LEMMA FlatReport ==
    ASSUME NEW items, NEW event, NEW bytes \in Seq(Byte), IsReport(items, event, bytes)
    PROVE  FlattenSeq(Bytes(items)) = bytes
<1> DEFINE First(n) == [i \in 1 .. n |-> IF i = 1 THEN bytes ELSE <<>>]
           P == {n \in Nat : First(n + 1) \in Seq(Seq(Byte)) /\ FlattenSeq(First(n + 1)) = bytes}
<1>1. ASSUME NEW n \in Nat
      PROVE  First(n) \in Seq(Seq(Byte)) /\ First(n + 1) = Append(First(n), IF n = 0 THEN bytes ELSE <<>>)
  <2>1. First(n) \in Seq(Seq(Byte)) /\ Len(First(n)) = n
    OBVIOUS
  <2>2. Append(First(n), IF n = 0 THEN bytes ELSE <<>>) =
           [i \in 1 .. n + 1 |-> IF i <= n THEN First(n)[i] ELSE IF n = 0 THEN bytes ELSE <<>>]
    <3> DEFINE f == First(n)
               x == IF n = 0 THEN bytes ELSE <<>>
    <3>1. f \in Seq(Seq(Byte)) /\ Len(f) = n /\ x \in Seq(Byte)
      BY <2>1
    <3> HIDE DEF f, x
    <3>2. Append(f, x) = [i \in 1 .. n + 1 |-> IF i <= n THEN f[i] ELSE x]
      <4>1. /\ Append(f, x) \in Seq(Seq(Byte)) /\ Len(Append(f, x)) = n + 1
            /\ \A i \in 1 .. n : Append(f, x)[i] = f[i]
            /\ Append(f, x)[n + 1] = x
        BY <3>1, AppendProperties
      <4> DEFINE g == Append(f, x)
      <4>2. /\ g \in Seq(Seq(Byte)) /\ Len(g) = n + 1
            /\ (\A i \in 1 .. n : g[i] = f[i]) /\ g[n + 1] = x
        BY <4>1
      <4> HIDE DEF g
      <4>3. \A i \in 1 .. n + 1 : g[i] = IF i <= n THEN f[i] ELSE x
        BY <4>2
      <4>4. g \in [1 .. n + 1 -> Seq(Byte)]
        BY <4>2, LenProperties
      <4>5. g = [i \in 1 .. n + 1 |-> IF i <= n THEN f[i] ELSE x]
        BY <4>3, <4>4
      <4> QED BY <4>5 DEF g
    <3> QED BY <3>2 DEF f, x
  <2>3. \A i \in 1 .. n + 1 : First(n + 1)[i] =
           IF i <= n THEN First(n)[i] ELSE IF n = 0 THEN bytes ELSE <<>>
    OBVIOUS
  <2> QED BY <2>1, <2>2, <2>3
<1>2. First(0) = <<>>
  OBVIOUS
<1> HIDE DEF First
<1>3. <<>> \in Seq(Byte)
  BY EmptySeq
<1>4. 0 \in P
  <2>1. First(1) = Append(<<>>, bytes) /\ First(1) \in Seq(Seq(Byte))
    <3>1. First(0 + 1) = Append(First(0), IF 0 = 0 THEN bytes ELSE <<>>)
      BY <1>1
    <3>2. First(1) \in Seq(Seq(Byte)) /\ 0 + 1 = 1
      BY <1>1
    <3> QED BY <1>2, <3>1, <3>2
  <2>2. <<>> \in Seq(Seq(Byte))
    BY EmptySeq
  <2>3. FlattenSeq(First(1)) = <<>> \o bytes
    BY <2>1, <2>2, FlattenAppend, FlattenEmpty
  <2>4. <<>> \o bytes = bytes
    BY ConcatEmptySeq
  <2> QED BY <2>1, <2>3, <2>4
<1>5. ASSUME NEW n \in Nat, n \in P PROVE n + 1 \in P
  <2> DEFINE m == n + 1
  <2>1. m \in Nat /\ m # 0
    OBVIOUS
  <2>2. First(m) \in Seq(Seq(Byte)) /\ FlattenSeq(First(m)) = bytes
    BY <1>5
  <2> HIDE DEF m
  <2>3. First(m + 1) = Append(First(m), <<>>) /\ First(m + 1) \in Seq(Seq(Byte))
    <3>1. First(m + 1) = Append(First(m), <<>>)
      BY <1>1, <2>1
    <3>2. m + 1 \in Nat
      BY <2>1
    <3> QED BY <1>1, <3>1, <3>2
  <2>4. FlattenSeq(First(m + 1)) = bytes \o <<>>
    BY <1>3, <2>2, <2>3, FlattenAppend
  <2>5. bytes \o <<>> = bytes
    BY ConcatEmptySeq
  <2>6. m \in P
    BY <2>1, <2>3, <2>4, <2>5
  <2> QED BY <2>6 DEF m
<1> HIDE DEF P
<1>6. Nat \subseteq P
  BY <1>4, <1>5, NatSetInduction
<1>7. ReportLen - 1 \in Nat /\ (ReportLen - 1) + 1 = ReportLen
  BY FilterAssumption
<1>8. FlattenSeq(First(ReportLen)) = bytes
  BY <1>6, <1>7 DEF P
<1>9. Bytes(items) = First(ReportLen)
  BY <1>7 DEF Bytes, First, IsReport
<1> QED BY <1>8, <1>9

(* Bytes that move from the buffer to the output stay in order.            *)
LEMMA Moved ==
    ASSUME NEW o \in Seq(Item), NEW items \in Seq(Item),
           NEW x \in Seq(Byte), NEW y \in Seq(Byte), FlattenSeq(Bytes(items)) = x
    PROVE  FlattenSeq(Bytes(o \o items)) \o y = FlattenSeq(Bytes(o)) \o (x \o y)
<1> DEFINE bo == Bytes(o)
           bi == Bytes(items)
<1>1. bo \in Seq(Seq(Byte)) /\ bi \in Seq(Seq(Byte)) /\ Bytes(o \o items) = bo \o bi
  BY BytesConcat
<1>2. FlattenSeq(bi) = x
  OBVIOUS
<1> HIDE DEF bo, bi
<1>3. FlattenSeq(bo \o bi) = FlattenSeq(bo) \o x
  BY <1>1, <1>2, FlattenConcat
<1>4. FlattenSeq(bo) \in Seq(Byte)
  BY <1>1, FlattenType
<1>5. (FlattenSeq(bo) \o x) \o y = FlattenSeq(bo) \o (x \o y)
  BY <1>4, ConcatAssociative
<1> QED BY <1>1, <1>3, <1>5 DEF bo

(* A sequence is its beginning and its end.                                *)
LEMMA CutInTwo ==
    ASSUME NEW s \in Seq(Byte), NEW n \in 0 .. Len(s)
    PROVE  /\ SubSeq(s, 1, n) \in Seq(Byte) /\ SubSeq(s, n + 1, Len(s)) \in Seq(Byte)
           /\ SubSeq(s, 1, n) \o SubSeq(s, n + 1, Len(s)) = s
<1>1. Len(s) \in Nat
  OBVIOUS
<1>2. SubSeq(s, 1, n) \o SubSeq(s, n + 1, Len(s)) = SubSeq(s, 1, Len(s))
  <2>1. 1 \in 1 .. Len(s) + 1 /\ n \in 1 - 1 .. Len(s) /\ Len(s) \in n .. Len(s)
    BY <1>1
  <2> QED BY <2>1, ConcatAdjacentSubSeq
<1>3. SubSeq(s, 1, Len(s)) = s
  BY SubSeqFull
<1>4. SubSeq(s, 1, n) \in Seq(Byte) /\ SubSeq(s, n + 1, Len(s)) \in Seq(Byte)
  BY <1>1
<1> QED BY <1>2, <1>3, <1>4

(* transfer moves bytes.                                                   *)
LEMMA TransferMoves ==
    ASSUME TypeOK, NothingLost, NEW n \in 0 .. Len(buffer), transfer(n), InProcess
    PROVE  NothingLost'
<1> DEFINE x == SubSeq(buffer, 1, n)
           y == SubSeq(buffer, n + 1, Len(buffer))
           p == Passed(x)
<1>1. buffer \in Seq(Byte) /\ out \in Seq(Item)
  BY DEF TypeOK
<1>2. x \in Seq(Byte) /\ y \in Seq(Byte) /\ x \o y = buffer
  BY <1>1, CutInTwo
<1>3. out' = out \o p /\ buffer' = y
  BY DEF transfer
<1> HIDE DEF x, y
<1>4. p \in Seq(Item) /\ FlattenSeq(Bytes(p)) = x
  BY <1>2, PassedItems, FlatPassed
<1> HIDE DEF p
<1>5. FlattenSeq(Bytes(out \o p)) \o y = FlattenSeq(Bytes(out)) \o (x \o y)
  BY <1>1, <1>2, <1>4, Moved, ZenonT(40)
<1>6. FlattenSeq(Bytes(out')) \o buffer' = FlattenSeq(Bytes(out)) \o buffer
  BY <1>2, <1>3, <1>5
<1>7. UNCHANGED <<typed, nread>>
  BY DEF InProcess
<1> QED BY <1>6, <1>7 DEF NothingLost

(* Every step keeps what was read.                                         *)
LEMMA LostKept ==
    ASSUME TypeOK, NothingLost, [Next]_vars
    PROVE  NothingLost'
<1>1. CASE UNCHANGED <<typed, nread, buffer, out>>
  BY <1>1 DEF NothingLost
<1>2. CASE TransferPlain
  <2> DEFINE esc == SelectInSeq(buffer, LAMBDA b : b = "esc")
             n == IF esc = 0 THEN Len(buffer) ELSE esc - 1
  <2>1. transfer(n) /\ InProcess /\ buffer # <<>> /\ Head(buffer) # "esc"
    BY <1>2 DEF TransferPlain
  <2>2. n \in 1 .. Len(buffer)
    BY <2>1, PlainCount
  <2> HIDE DEF n
  <2>3. n \in 0 .. Len(buffer)
    BY <2>2
  <2> QED BY <2>1, <2>3, TransferMoves
<1>3. CASE EscUnknown \/ EscExpired
  <2>1. transfer(1) /\ InProcess /\ buffer # <<>>
    BY <1>3 DEF EscUnknown, EscExpired, AtEscape
  <2>2. 1 \in 0 .. Len(buffer)
    BY <2>1 DEF TypeOK
  <2> QED BY <2>1, <2>2, TransferMoves
<1>4. CASE EscRecognized
  <2> DEFINE event == MouseEvent(buffer[4])
             x == SubSeq(buffer, 1, 6)
             y == SubSeq(buffer, 7, Len(buffer))
             p == Report(event, x)
  <2>1. buffer \in Seq(Byte) /\ out \in Seq(Item) /\ 6 \in 0 .. Len(buffer)
    BY <1>4 DEF TypeOK, EscRecognized, Recognized
  <2>2. x \in Seq(Byte) /\ y \in Seq(Byte) /\ x \o y = buffer
    <3>1. 6 + 1 = 7
      OBVIOUS
    <3> QED BY <2>1, <3>1, CutInTwo
  <2>3. EventOK(event)
    BY EventTypes
  <2>4. out' = out \o p /\ buffer' = y
    BY <1>4 DEF EscRecognized
  <2> HIDE DEF event, x, y
  <2>5. IsReport(p, event, x)
    BY <2>2, <2>3, ReportItems, Zenon
  <2> HIDE DEF p
  <2>6. p \in Seq(Item) /\ FlattenSeq(Bytes(p)) = x
    BY <2>2, <2>5, FlatReport DEF IsReport
  <2>7. FlattenSeq(Bytes(out \o p)) \o y = FlattenSeq(Bytes(out)) \o (x \o y)
    BY <2>1, <2>2, <2>6, Moved, ZenonT(40)
  <2>8. FlattenSeq(Bytes(out')) \o buffer' = FlattenSeq(Bytes(out)) \o buffer
    BY <2>2, <2>4, <2>7
  <2>9. UNCHANGED <<typed, nread>>
    BY <1>4 DEF EscRecognized, AtEscape, InProcess
  <2> QED BY <2>8, <2>9 DEF NothingLost
<1>5. ASSUME NEW n \in 0 .. Min({Len(typed) - nread, ReadMax}), HostRead(n)
      PROVE  NothingLost'
  <2> DEFINE new == SubSeq(typed, nread + 1, nread + n)
             flat == FlattenSeq(Bytes(out))
  <2>1. n \in 0 .. Len(typed) - nread /\ new \in Seq(Byte)
    BY HostBytes
  <2>2. typed \in Seq(Byte) /\ nread \in 0 .. Len(typed) /\ Len(typed) \in Nat
        /\ buffer \in Seq(Byte) /\ out \in Seq(Item)
    BY DEF TypeOK
  <2>3. flat \in Seq(Byte)
    BY <2>2, BytesConcat, FlattenType
  <2>4. buffer' = buffer \o new /\ out' = out /\ typed' = typed /\ nread' = nread + n
    BY <1>5 DEF HostRead
  <2>5. SubSeq(typed, 1, nread) \o new = SubSeq(typed, 1, nread + n)
    <3>1. /\ 1 \in 1 .. Len(typed) + 1 /\ nread \in 1 - 1 .. Len(typed)
          /\ nread + n \in nread .. Len(typed)
      BY <2>1, <2>2
    <3> QED BY <2>2, <3>1, ConcatAdjacentSubSeq
  <2> HIDE DEF new
  <2>6. flat \o buffer = SubSeq(typed, 1, nread)
    BY DEF NothingLost
  <2>7. flat' = flat
    BY <2>4
  <2> HIDE DEF flat
  <2>8. flat \o (buffer \o new) = (flat \o buffer) \o new
    <3>1. flat \in Seq(Byte) /\ buffer \in Seq(Byte) /\ new \in Seq(Byte)
      BY <2>1, <2>2, <2>3
    <3>2. \A a, b, c \in Seq(Byte) : a \o (b \o c) = (a \o b) \o c
      BY ConcatAssociative
    <3> QED BY <3>1, <3>2, Zenon
  <2>9. flat' \o buffer' = SubSeq(typed', 1, nread')
    BY <2>4, <2>5, <2>6, <2>7, <2>8
  <2> QED BY <2>9 DEF flat, NothingLost
<1>6. CASE \/ Tick \/ Signal \/ Preempted \/ StartProcess \/ ProcessDone \/ EscWaits
           \/ EscStartsWait
           \/ ReplyData \/ ChooseWait \/ FallAsleep \/ PollTimesOut \/ HostFails
           \/ UNCHANGED vars
  BY <1>1, <1>6 DEF Tick, Signal, Preempted, StartProcess, ProcessDone, EscWaits,
     EscStartsWait, AtEscape, InProcess,
     ReplyData, ChooseWait, FallAsleep, PollTimesOut, HostFails, vars, parser, Return
<1>7. CASE \/ \E vmin \in Vmins, vtime \in Vtimes, n \in Sizes : read(vmin, vtime, n)
           \/ \E timeout, time \in Times, minimum \in Minimums, n \in Sizes :
                 dev_read(timeout, time, minimum, n)
  BY <1>1, <1>7 DEF read, dev_read, BeginRead, parser
<1> QED BY <1>2, <1>3, <1>4, <1>5, <1>6, <1>7 DEF Next, common_read, process

(* Whatever is typed, however it is cut into reads: what the guest has got *)
(* or can get, followed by what is held back, is what was read from the    *)
(* terminal, in order (transfer, drop and the erase of m_ready).           *)
THEOREM NothingEverLost == Spec => []NothingLost
<1>1. Init => NothingLost
  <2> SUFFICES ASSUME Init PROVE NothingLost
    OBVIOUS
  <2>1. out = <<>> /\ buffer = <<>> /\ nread = 0
    BY DEF Init
  <2>2. Bytes(out) = <<>>
    BY <2>1 DEF Bytes
  <2>3. SubSeq(typed, 1, nread) = <<>>
    <3>1. nread \in Int /\ nread < 1
      BY <2>1
    <3> QED BY <3>1, SubSeqEmpty
  <2>4. <<>> \o <<>> = <<>>
    <3>1. <<>> \in Seq(Byte)
      BY EmptySeq
    <3> QED BY <3>1, ConcatEmptySeq
  <2> QED BY <2>1, <2>2, <2>3, <2>4, FlattenEmpty DEF NothingLost
<1>2. LoopInv /\ NothingLost /\ [Next]_vars => NothingLost'
  BY LostKept DEF LoopInv
<1> QED BY Invariance, <1>1, <1>2, PTL DEF Spec

-----------------------------------------------------------------------------
(* The buttons.                                                            *)

(* Items that say nothing of buttons going down or up.                     *)
Quiet(item) == item.kind \in {"byte", "move", "more"}

(* The presses that are not released at n.                                 *)
Down(items, n) ==
    {k \in 1 .. n : items[k].kind = "down" /\ \A u \in k .. n : items[u].kind # "up"}

(* Only the items so far count.                                            *)
LEMMA PressedPrefix ==
    ASSUME NEW s, NEW t, NEW n \in Nat, \A i \in 1 .. n : s[i] = t[i]
    PROVE  Pressed(s, n) = Pressed(t, n)
<1>1. Down(s, n) = Down(t, n)
  BY DEF Down
<1>2. \A j \in Down(s, n) : s[j].held = t[j].held
  BY DEF Down
<1>3. Pressed(s, n) = UNION {s[j].held : j \in Down(s, n)}
  BY DEF Pressed, Down
<1>4. Pressed(t, n) = UNION {t[j].held : j \in Down(t, n)}
  BY DEF Pressed, Down
<1>5. {s[j].held : j \in Down(s, n)} = {t[j].held : j \in Down(t, n)}
  BY <1>1, <1>2
<1> QED BY <1>3, <1>4, <1>5

(* Quiet items change nothing.                                             *)
LEMMA PressedQuiet ==
    ASSUME NEW s, NEW a \in Nat, NEW b \in Nat, a <= b,
           \A i \in a + 1 .. b : Quiet(s[i])
    PROVE  Pressed(s, b) = Pressed(s, a)
<1>1. Down(s, b) = Down(s, a)
  <2>1. ASSUME NEW k \in Down(s, b) PROVE k \in Down(s, a)
    BY DEF Down, Quiet
  <2>2. ASSUME NEW k \in Down(s, a) PROVE k \in Down(s, b)
    BY DEF Down, Quiet
  <2> QED BY <2>1, <2>2
<1> QED BY <1>1 DEF Pressed, Down

(* What one more item changes.                                             *)
LEMMA PressedNext ==
    ASSUME NEW s, NEW n \in Nat
    PROVE  /\ s[n + 1].kind = "up" => Pressed(s, n + 1) = {}
           /\ s[n + 1].kind = "down" =>
                 Pressed(s, n + 1) = Pressed(s, n) \cup s[n + 1].held
<1> USE DEF Pressed, Down
<1>1. ASSUME s[n + 1].kind = "up" PROVE Pressed(s, n + 1) = {}
  <2>1. Down(s, n + 1) = {}
    BY <1>1
  <2> QED BY <2>1
<1>2. ASSUME s[n + 1].kind = "down"
      PROVE  Pressed(s, n + 1) = Pressed(s, n) \cup s[n + 1].held
  <2>1. Down(s, n + 1) = Down(s, n) \cup {n + 1}
    <3>1. ASSUME NEW k \in Down(s, n + 1) PROVE k \in Down(s, n) \cup {n + 1}
      OBVIOUS
    <3>2. ASSUME NEW k \in Down(s, n) PROVE k \in Down(s, n + 1)
      BY <1>2
    <3>3. n + 1 \in Down(s, n + 1)
      BY <1>2
    <3> QED BY <3>1, <3>2, <3>3
  <2>2. Pressed(s, n + 1) = UNION {s[j].held : j \in Down(s, n + 1)}
    OBVIOUS
  <2>3. Pressed(s, n) = UNION {s[j].held : j \in Down(s, n)}
    OBVIOUS
  <2> HIDE DEF Pressed, Down
  <2> QED BY <2>1, <2>2, <2>3
<1> QED BY <1>1, <1>2

(* What is added to the output, with the first item of it known, keeps the *)
(* report of the buttons right.                                            *)
LEMMA ReportedAfter ==
    ASSUME TypeOK, ButtonsReported, NEW p \in Seq(Item), out' = out \o p,
           \A i \in 2 .. Len(p) : p[i].kind \in {"byte", "more"},
           Len(p) > 0,
           p[1].kind \in {"up", "move"} => p[1].held = buttons,
           p[1].kind = "up" => buttons' = {},
           p[1].kind = "down" => buttons' = buttons \cup p[1].held,
           p[1].kind \notin {"up", "down"} => buttons' = buttons
    PROVE  ButtonsReported'
<1> DEFINE n == Len(out)
           m == Len(p)
           o == out'
<1>1. n \in Nat /\ m \in Nat /\ m > 0 /\ out \in Seq(Item)
  BY DEF TypeOK
<1>2. /\ o \in Seq(Item) /\ Len(o) = n + m
      /\ \A i \in 1 .. n : o[i] = out[i]
      /\ \A i \in 1 .. m : o[n + i] = p[i]
  <2>1. /\ o \in Seq(Item) /\ Len(o) = n + m
        /\ \A i \in 1 .. n + m : o[i] = IF i <= n THEN out[i] ELSE p[i - n]
    BY <1>1, ConcatProperties
  <2>2. \A i \in 1 .. n : o[i] = out[i]
    BY <1>1, <2>1
  <2>3. ASSUME NEW i \in 1 .. m PROVE o[n + i] = p[i]
    <3>1. n + i \in 1 .. n + m /\ ~(n + i <= n) /\ (n + i) - n = i
      BY <1>1
    <3> QED BY <2>1, <3>1
  <2> QED BY <2>1, <2>2, <2>3
<1>3. DOMAIN o = 1 .. n + m /\ DOMAIN out = 1 .. n
  BY <1>1, <1>2, LenProperties
<1>4. ButtonsReported' <=>
         /\ buttons' = Pressed(o, Len(o))
         /\ \A i \in DOMAIN o : o[i].kind \in {"up", "move"} => o[i].held = Pressed(o, i - 1)
  BY DEF ButtonsReported
<1>5. /\ buttons = Pressed(out, n)
      /\ \A i \in 1 .. n : out[i].kind \in {"up", "move"} => out[i].held = Pressed(out, i - 1)
  BY <1>3 DEF ButtonsReported
<1> HIDE DEF n, m, o
<1>6. \A k \in 0 .. n : Pressed(o, k) = Pressed(out, k)
  <2> TAKE k \in 0 .. n
  <2>1. k \in Nat /\ \A i \in 1 .. k : o[i] = out[i]
    BY <1>1, <1>2
  <2> QED BY <2>1, PressedPrefix
<1>7. o[n + 1] = p[1] /\ Pressed(o, n) = buttons
  <2>1. 1 \in 1 .. m /\ n \in 0 .. n
    BY <1>1
  <2> QED BY <1>2, <1>5, <1>6, <2>1
<1>8. ASSUME NEW i \in n + 2 .. n + m PROVE o[i].kind \in {"byte", "more"}
  <2>1. i - n \in 1 .. m /\ i - n \in 2 .. m /\ n + (i - n) = i
    BY <1>1
  <2>2. o[i] = p[i - n]
    BY <1>2, <2>1
  <2> QED BY <2>1, <2>2 DEF m
<1>9. Pressed(o, n + m) = Pressed(o, n + 1)
  <2>1. /\ n + 1 \in Nat /\ n + m \in Nat /\ n + 1 <= n + m
        /\ \A i \in (n + 1) + 1 .. n + m : Quiet(o[i])
    BY <1>1, <1>8 DEF Quiet
  <2> QED BY <2>1, PressedQuiet
<1>10. buttons' = Pressed(o, n + 1)
  <2>1. CASE p[1].kind = "up"
    BY <1>1, <1>7, <2>1, PressedNext
  <2>2. CASE p[1].kind = "down"
    BY <1>1, <1>7, <2>2, PressedNext
  <2>3. CASE p[1].kind \notin {"up", "down"}
    <3>1. p[1] \in Item
      <4>1. 1 \in 1 .. Len(p)
        BY <1>1 DEF m
      <4> QED BY <4>1, ElementOfSeq
    <3>2. Quiet(o[n + 1])
      BY <1>7, <2>3, <3>1 DEF Item, Quiet
    <3>3. /\ n + 1 \in Nat /\ n <= n + 1
          /\ \A i \in n + 1 .. n + 1 : Quiet(o[i])
      BY <1>1, <3>2
    <3>4. Pressed(o, n + 1) = Pressed(o, n)
      BY <1>1, <3>3, PressedQuiet
    <3> QED BY <1>7, <2>3, <3>4
  <2> QED BY <2>1, <2>2, <2>3
<1>11. ASSUME NEW i \in 1 .. n + m, o[i].kind \in {"up", "move"}
       PROVE  o[i].held = Pressed(o, i - 1)
  <2>1. CASE i \in 1 .. n
    <3>1. o[i] = out[i] /\ i - 1 \in 0 .. n
      BY <1>1, <1>2, <2>1
    <3> QED BY <1>5, <1>6, <1>11, <2>1, <3>1
  <2>2. CASE i = n + 1
    <3>1. i - 1 = n
      BY <1>1, <2>2
    <3> QED BY <1>7, <1>11, <2>2, <3>1
  <2>3. CASE i \in n + 2 .. n + m
    BY <1>8, <1>11, <2>3
  <2> QED BY <1>1, <2>1, <2>2, <2>3
<1> QED BY <1>2, <1>3, <1>4, <1>9, <1>10, <1>11

(* transfer says nothing of buttons.                                       *)
LEMMA TransferQuiet ==
    ASSUME TypeOK, ButtonsReported, NEW n \in 1 .. Len(buffer), transfer(n),
           buttons' = buttons
    PROVE  ButtonsReported'
<1> DEFINE x == SubSeq(buffer, 1, n)
           p == Passed(x)
<1>1. n \in 0 .. Len(buffer) /\ n > 0
  OBVIOUS
<1>2. x \in Seq(Byte) /\ Len(x) = n
  BY <1>1, TransferTypes
<1>3. out' = out \o p
  BY DEF transfer
<1> HIDE DEF x
<1>4. p \in Seq(Item) /\ Len(p) = n /\ \A i \in 1 .. n : p[i].kind = "byte"
  BY <1>2, PassedItems
<1>5. 1 \in 1 .. n /\ \A i \in 2 .. n : i \in 1 .. n
  BY <1>1
<1> HIDE DEF p
<1>6. /\ \A i \in 2 .. Len(p) : p[i].kind \in {"byte", "more"}
      /\ Len(p) > 0 /\ p[1].kind = "byte"
  BY <1>1, <1>4, <1>5
<1> QED BY <1>3, <1>4, <1>6, ReportedAfter

(* Every step keeps the report of the buttons right.                       *)
LEMMA ButtonsKept ==
    ASSUME TypeOK, ButtonsReported, [Next]_vars
    PROVE  ButtonsReported'
<1>1. CASE UNCHANGED <<buttons, out>>
  BY <1>1 DEF ButtonsReported
<1>2. CASE TransferPlain
  <2> DEFINE esc == SelectInSeq(buffer, LAMBDA b : b = "esc")
             n == IF esc = 0 THEN Len(buffer) ELSE esc - 1
  <2>1. transfer(n) /\ buffer # <<>> /\ Head(buffer) # "esc" /\ buttons' = buttons
    BY <1>2 DEF TransferPlain
  <2>2. n \in 1 .. Len(buffer)
    BY <2>1, PlainCount
  <2> HIDE DEF n
  <2> QED BY <2>1, <2>2, TransferQuiet
<1>3. CASE EscUnknown \/ EscExpired
  <2>1. transfer(1) /\ buffer # <<>> /\ buttons' = buttons
    BY <1>3 DEF EscUnknown, EscExpired, AtEscape
  <2>2. 1 \in 1 .. Len(buffer)
    BY <2>1 DEF TypeOK
  <2> QED BY <2>1, <2>2, TransferQuiet
<1>4. CASE EscRecognized
  <2> DEFINE event == MouseEvent(buffer[4])
             x == SubSeq(buffer, 1, 6)
             p == Report(event, x)
  <2>1. x \in Seq(Byte)
    BY <1>4, RecognizedTypes
  <2>2. /\ EventOK(event)
        /\ event.kind = "down" => event.now = buttons \cup event.held
        /\ event.kind = "up" => event.now = {} /\ event.held = buttons
        /\ event.kind = "move" => event.now = buttons /\ event.held = buttons
    BY EventTypes
  <2>3. out' = out \o p /\ buttons' = event.now
    BY <1>4 DEF EscRecognized
  <2> HIDE DEF event, x
  <2>4. IsReport(p, event, x)
    BY <2>1, <2>2, ReportItems, Zenon
  <2> HIDE DEF p
  <2>5. /\ p \in Seq(Item) /\ Len(p) > 0
        /\ \A i \in 2 .. Len(p) : p[i].kind \in {"byte", "more"}
        /\ p[1].kind = event.kind /\ p[1].held = event.held
    BY <2>4, FilterAssumption DEF IsReport
  <2>6. /\ p[1].kind \in {"up", "move"} => p[1].held = buttons
        /\ p[1].kind = "up" => buttons' = {}
        /\ p[1].kind = "down" => buttons' = buttons \cup p[1].held
        /\ p[1].kind \notin {"up", "down"} => buttons' = buttons
    BY <2>2, <2>3, <2>5 DEF EventOK
  <2> QED BY <2>3, <2>5, <2>6, ReportedAfter
<1>5. CASE \/ Tick \/ Signal \/ Preempted \/ StartProcess \/ ProcessDone \/ EscWaits
           \/ EscStartsWait
           \/ ReplyData \/ ChooseWait \/ FallAsleep \/ PollTimesOut \/ HostFails
           \/ UNCHANGED vars
  BY <1>1, <1>5 DEF Tick, Signal, Preempted, StartProcess, ProcessDone, EscWaits,
     EscStartsWait, AtEscape, InProcess,
     ReplyData, ChooseWait, FallAsleep, PollTimesOut, HostFails, vars, parser, Return
<1>6. CASE \/ \E vmin \in Vmins, vtime \in Vtimes, n \in Sizes : read(vmin, vtime, n)
           \/ \E timeout, time \in Times, minimum \in Minimums, n \in Sizes :
                 dev_read(timeout, time, minimum, n)
           \/ \E n \in 0 .. Min({Len(typed) - nread, ReadMax}) : HostRead(n)
  BY <1>1, <1>6 DEF read, dev_read, BeginRead, HostRead, parser
<1> QED BY <1>2, <1>3, <1>4, <1>5, <1>6 DEF Next, common_read, process

(* A release or a motion names the buttons that went down since the last   *)
(* release and no others (parse_esc).                                      *)
THEOREM ButtonsAlwaysReported == Spec => []ButtonsReported
<1>1. Init => ButtonsReported
  BY DEF Init, ButtonsReported, Pressed
<1>2. LoopInv /\ ButtonsReported /\ [Next]_vars => ButtonsReported'
  BY ButtonsKept DEF LoopInv
<1> QED BY Invariance, <1>1, <1>2, PTL DEF Spec

-----------------------------------------------------------------------------
(* TerminalModes.                                                          *)

Cc == [Index -> {0, 1}]

(* Settings of the host's terminal, and the attributes a guest sees.       *)
Termios == [iflag : SUBSET {"ICRNL", "IUTF8"}, oflag : SUBSET {"OPOST", "ONLCR"},
            lflag : SUBSET (LFlags \cup {"XCASE"}), size : {5, 7, 8},
            flow : BOOLEAN, cc : Cc]
Qnx == [iflag : SUBSET IFlags, oflag : SUBSET OFlags, lflag : SUBSET LFlags,
        size : {5, 8}, flow : BOOLEAN, cc : Cc]

(* A request that is being served holds settings.                          *)
PlaceOK(r) ==
    /\ r.at = "set" =>
          r.was \in Termios /\ (Len(r.update) = 1 => r.update[1] \in Qnx)
    /\ r.at = "approximate" => r.old \in Termios /\ r.to \in Termios
    /\ r.at = "read" => r.old \in Termios

TypeInv ==
    /\ term \in Termios
    /\ saved \in [Proc -> {<<>>} \cup {<<q>> : q \in Qnx}]
    /\ DOMAIN place = Proc
    /\ \A p \in Proc : PlaceOK(place[p])
    /\ DOMAIN asked = {"term", "win"}
    /\ orderly \in [term : BOOLEAN, win : BOOLEAN]

(* The guests that wait in dev_read are in the queue, each once.           *)
ReadersOK ==
    /\ readers \in Seq(Proc)
    /\ \A i, j \in 1 .. Len(readers) : readers[i] = readers[j] => i = j
    /\ \A p \in Proc : place[p].at = "read" <=> \E i \in 1 .. Len(readers) : readers[i] = p

(* The first of them found what was asked for, and will put it back.       *)
TermKept ==
    orderly.term =>
        IF Len(readers) = 0 THEN term = asked.term
        ELSE place[readers[1]].old = asked.term

SizeKept == orderly.win => win = asked.win

IInv == TypeInv /\ ReadersOK /\ TermKept /\ SizeKept

-----------------------------------------------------------------------------
(* Lemmas about the operators.                                             *)

(* CC_MAP leads to characters there are, and number 0 to itself.           *)
LEMMA CcMapped ==
    /\ \A k \in Index : (\E m \in CcMap : m[1] = k) =>
          (CHOOSE m \in CcMap : m[1] = k)[2] \in Index
    /\ \E m \in CcMap : m[1] = 0
    /\ (CHOOSE m \in CcMap : m[1] = 0)[2] = 0
    /\ 0 \in Index
<1>1. \A m \in CcMap : m[2] \in Index /\ (m[1] = 0 => m[2] = 0)
  BY DEF CcMap, Index
<1>2. \E m \in CcMap : m[1] = 0
  BY DEF CcMap
<1>3. ASSUME NEW k, \E m \in CcMap : m[1] = k
      PROVE  LET m == CHOOSE m \in CcMap : m[1] = k IN m \in CcMap /\ m[1] = k
  BY <1>3
<1>4. 0 \in Index
  BY DEF Index
<1> QED BY <1>1, <1>2, <1>3, <1>4

(* What a guest gets is what attributes can be.                            *)
LEMMA GetType ==
    ASSUME NEW t \in Termios
    PROVE  handle_tcgetattr(t) \in Qnx
<1> DEFINE c == [k \in Index |->
                    IF \E m \in CcMap : m[1] = k
                    THEN t.cc[(CHOOSE m \in CcMap : m[1] = k)[2]] ELSE 0]
<1>1. c \in Cc
  <2>1. t.cc \in [Index -> {0, 1}]
    BY DEF Termios, Cc
  <2>2. \A k \in Index : (\E m \in CcMap : m[1] = k) =>
           t.cc[(CHOOSE m \in CcMap : m[1] = k)[2]] \in {0, 1}
    BY <2>1, CcMapped
  <2> QED BY <2>2 DEF Cc
<1> HIDE DEF c
<1>2. MapSize(t.size) \in {5, 8}
  BY DEF MapSize
<1>3. t.flow \in BOOLEAN
  BY DEF Termios
<1>4. handle_tcgetattr(t) =
        [iflag |-> t.iflag \cap IFlags, oflag |-> t.oflag \cap OFlags,
         lflag |-> t.lflag \cap LFlags, size |-> MapSize(t.size), flow |-> t.flow,
         cc |-> c]
  BY DEF handle_tcgetattr, c
<1> QED BY <1>1, <1>2, <1>3, <1>4 DEF Qnx

(* What a guest sets is what settings can be.                              *)
LEMMA SetType ==
    ASSUME NEW t \in Termios, NEW q \in Qnx
    PROVE  handle_tcsetattr(t, q) \in Termios
<1> DEFINE c == [k \in Index |->
                    IF \E m \in CcMap : m[1] = k
                    THEN q.cc[(CHOOSE m \in CcMap : m[1] = k)[2]] ELSE t.cc[k]]
<1>1. c \in Cc
  <2>1. t.cc \in [Index -> {0, 1}] /\ q.cc \in [Index -> {0, 1}]
    BY DEF Termios, Qnx, Cc
  <2>2. \A k \in Index : (\E m \in CcMap : m[1] = k) =>
           q.cc[(CHOOSE m \in CcMap : m[1] = k)[2]] \in {0, 1}
    BY <2>1, CcMapped
  <2> QED BY <2>1, <2>2 DEF Cc
<1> HIDE DEF c
<1>2. MapSize(q.size) \in {5, 7, 8}
  BY DEF MapSize
<1>3. q.flow \in BOOLEAN
  BY DEF Qnx
<1>4. /\ (t.iflag \ IFlags) \cup q.iflag \in SUBSET {"ICRNL", "IUTF8"}
      /\ (t.oflag \ OFlags) \cup q.oflag \cup {"ONLCR"} \in SUBSET {"OPOST", "ONLCR"}
      /\ (t.lflag \ LFlags) \cup q.lflag \in SUBSET (LFlags \cup {"XCASE"})
  BY DEF Termios, Qnx, IFlags, OFlags
<1>5. handle_tcsetattr(t, q) =
        [iflag |-> (t.iflag \ IFlags) \cup q.iflag,
         oflag |-> (t.oflag \ OFlags) \cup q.oflag \cup {"ONLCR"},
         lflag |-> (t.lflag \ LFlags) \cup q.lflag,
         size |-> MapSize(q.size), flow |-> q.flow, cc |-> c]
  BY DEF handle_tcsetattr, c
<1> QED BY <1>1, <1>2, <1>3, <1>4, <1>5 DEF Termios

(* dev_mode makes settings of settings.                                    *)
LEMMA ModeType ==
    ASSUME NEW t \in Termios, NEW mask, NEW wanted
    PROVE  Mode(t, mask, wanted) \in Termios
<1> DEFINE on == mask \cap wanted
           l == (t.lflag \ LFlags)
                  \cup (IF "ECHO" \in on THEN {"ECHO"} ELSE {})
                  \cup (IF "EDIT" \in on THEN {"ICANON"} ELSE {})
                  \cup (IF "ISIG" \in on THEN {"XCASE"} ELSE {})
                  \cup (IF "OPOST" \in on THEN {"ECHO"} ELSE {})
           i == IF "EDIT" \in mask THEN t.iflag \ {"ICRNL"} ELSE t.iflag
           o == t.oflag \ {"OPOST"}
<1>1. l \in SUBSET (LFlags \cup {"XCASE"})
  BY DEF Termios, LFlags
<1>2. i \in SUBSET {"ICRNL", "IUTF8"} /\ o \in SUBSET {"OPOST", "ONLCR"}
  BY DEF Termios
<1>3. Mode(t, mask, wanted) = [t EXCEPT !.iflag = i, !.oflag = o, !.lflag = l]
  BY DEF Mode, Termios
<1> HIDE DEF l, i, o
<1> QED BY <1>1, <1>2, <1>3 DEF Termios

(* So does TermiosSettings::approximate.                                   *)
LEMMA ApproximateType ==
    ASSUME NEW t \in Termios, NEW timeout \in BOOLEAN
    PROVE  approximate(t, timeout) \in Termios
<1> DEFINE l == t.lflag \ {"ICANON"}
           c == [[t.cc EXCEPT ![5] = 1] EXCEPT ![6] = IF timeout THEN 0 ELSE 1]
<1>1. l \in SUBSET (LFlags \cup {"XCASE"})
  BY DEF Termios
<1>2. c \in Cc
  BY DEF Termios, Cc, Index
<1>3. approximate(t, timeout) = [t EXCEPT !.lflag = l, !.cc = c]
  BY DEF approximate, Termios
<1> HIDE DEF l, c
<1> QED BY <1>1, <1>2, <1>3 DEF Termios

(* Whatever the terminal is set to, attributes that are set are what is    *)
(* got, but for the three characters with numbers of their own.            *)
LEMMA SetThenGet ==
    ASSUME NEW t \in Termios, NEW q \in Qnx
    PROVE  LET now == handle_tcgetattr(handle_tcsetattr(t, q))
           IN  [now EXCEPT !.cc = q.cc] = q /\ now.cc[0] = q.cc[0]
<1> DEFINE s == handle_tcsetattr(t, q)
           now == handle_tcgetattr(s)
<1>1. s \in Termios
  BY SetType
<1>2. /\ s.iflag = (t.iflag \ IFlags) \cup q.iflag
      /\ s.oflag = (t.oflag \ OFlags) \cup q.oflag \cup {"ONLCR"}
      /\ s.lflag = (t.lflag \ LFlags) \cup q.lflag
      /\ s.size = MapSize(q.size) /\ s.flow = q.flow
  BY DEF handle_tcsetattr
<1>3. s.cc[0] = q.cc[0]
  BY CcMapped DEF handle_tcsetattr
<1> HIDE DEF s
<1>4. now \in Qnx
  BY <1>1, GetType
<1>5. /\ now.iflag = s.iflag \cap IFlags
      /\ now.oflag = s.oflag \cap OFlags
      /\ now.lflag = s.lflag \cap LFlags
      /\ now.size = MapSize(s.size) /\ now.flow = s.flow
  BY DEF handle_tcgetattr
<1>6. now.cc[0] = s.cc[0]
  BY CcMapped DEF handle_tcgetattr
<1> HIDE DEF now
<1>7. now.iflag = q.iflag /\ now.oflag = q.oflag /\ now.lflag = q.lflag
  BY <1>2, <1>5 DEF Qnx, OFlags
<1>8. now.size = q.size
  BY <1>2, <1>5 DEF Qnx, MapSize
<1>9. now.flow = q.flow
  BY <1>2, <1>5
<1>10. [now EXCEPT !.cc = q.cc] = q
  <2>1. now = [iflag |-> q.iflag, oflag |-> q.oflag, lflag |-> q.lflag,
               size |-> q.size, flow |-> q.flow, cc |-> now.cc]
    BY <1>4, <1>7, <1>8, <1>9 DEF Qnx
  <2>2. q = [iflag |-> q.iflag, oflag |-> q.oflag, lflag |-> q.lflag,
             size |-> q.size, flow |-> q.flow, cc |-> q.cc]
    BY DEF Qnx
  <2> QED BY <2>1, <2>2
<1> QED BY <1>3, <1>6, <1>10 DEF now, s

(* A sequence without the first of its elements that is p.                 *)
LEMMA RemoveFirstIs ==
    ASSUME NEW s \in Seq(Proc), NEW p
    PROVE  \/ /\ \A i \in 1 .. Len(s) : s[i] # p
              /\ RemoveFirst(s, p) = s
           \/ \E j \in 1 .. Len(s) :
                /\ s[j] = p
                /\ RemoveFirst(s, p) \in Seq(Proc)
                /\ Len(RemoveFirst(s, p)) = Len(s) - 1
                /\ \A i \in 1 .. Len(s) - 1 :
                      RemoveFirst(s, p)[i] = IF i < j THEN s[i] ELSE s[i + 1]
<1>1. CASE \A i \in 1 .. Len(s) : s[i] # p
  BY <1>1 DEF RemoveFirst
<1>2. CASE \E i \in 1 .. Len(s) : s[i] = p
  <2> DEFINE I == {i \in 1 .. Len(s) : s[i] = p}
             j == Min(I)
  <2>1. I \subseteq Nat /\ I # {}
    BY <1>2
  <2>2. \E m \in I : \A n \in I : m <= n
    BY <2>1, LeastNat
  <2>3. j \in I
    BY <2>2 DEF Min
  <2>4. RemoveFirst(s, p) = SubSeq(s, 1, j - 1) \o SubSeq(s, j + 1, Len(s))
    BY <1>2, <2>1 DEF RemoveFirst, RemoveAt, SelectInSeq
  <2>5. j \in 1 .. Len(s) /\ s[j] = p
    BY <2>3
  <2> HIDE DEF j, I
  <2>6. /\ SubSeq(s, 1, j - 1) \in Seq(Proc) /\ SubSeq(s, j + 1, Len(s)) \in Seq(Proc)
        /\ Len(SubSeq(s, 1, j - 1)) = j - 1
        /\ Len(SubSeq(s, j + 1, Len(s))) = Len(s) - j
        /\ \A i \in 1 .. j - 1 : SubSeq(s, 1, j - 1)[i] = s[i]
        /\ \A i \in 1 .. Len(s) - j : SubSeq(s, j + 1, Len(s))[i] = s[j + i]
    BY <2>5
  <2> DEFINE a == SubSeq(s, 1, j - 1)
             b == SubSeq(s, j + 1, Len(s))
  <2>7. /\ a \in Seq(Proc) /\ b \in Seq(Proc)
        /\ Len(a) = j - 1 /\ Len(b) = Len(s) - j
        /\ \A i \in 1 .. j - 1 : a[i] = s[i]
        /\ \A i \in 1 .. Len(s) - j : b[i] = s[j + i]
    BY <2>6
  <2>8. RemoveFirst(s, p) = a \o b
    BY <2>4
  <2> HIDE DEF a, b
  <2>9. a \o b \in Seq(Proc) /\ Len(a \o b) = Len(s) - 1
    <3>1. Len(s) \in Nat
      OBVIOUS
    <3>2. a \o b \in Seq(Proc) /\ Len(a \o b) = Len(a) + Len(b)
      BY <2>7, ConcatProperties
    <3> QED BY <2>5, <2>7, <3>1, <3>2
  <2>10. ASSUME NEW i \in 1 .. Len(s) - 1
         PROVE  (a \o b)[i] = IF i < j THEN s[i] ELSE s[i + 1]
    <3>1. CASE i < j
      BY <2>5, <2>7, <3>1
    <3>2. CASE ~ (i < j)
      <4>1. i - Len(a) \in 1 .. Len(b) /\ j + (i - Len(a)) = i + 1
        BY <2>5, <2>7, <3>2
      <4>2. (a \o b)[i] = b[i - Len(a)]
        BY <2>5, <2>7, <3>2
      <4>3. b[i - Len(a)] = s[j + (i - Len(a))]
        BY <2>7, <4>1
      <4> QED BY <3>2, <4>1, <4>2, <4>3
    <3> QED BY <3>1, <3>2
  <2> QED BY <2>5, <2>8, <2>9, <2>10
<1> QED BY <1>1, <1>2

-----------------------------------------------------------------------------
(* Steps.                                                                  *)

(* A request begins, with settings that are in order.                      *)
LEMMA StartKeeps ==
    ASSUME IInv, NEW p \in Proc, NEW r, place[p] = User,
           place' = [place EXCEPT ![p] = r], PlaceOK(r), r.at # "read",
           UNCHANGED <<term, win, saved, readers, asked, orderly>>
    PROVE  IInv'
<1>1. \A q \in Proc : place'[q] = IF q = p THEN r ELSE place[q]
  BY DEF IInv, TypeInv
<1>2. TypeInv'
  BY <1>1 DEF IInv, TypeInv
<1>3. place[p].at # "read"
  BY DEF User
<1>4. ReadersOK'
  BY <1>1, <1>3 DEF IInv, ReadersOK
<1>5. TermKept'
  <2>1. CASE Len(readers) = 0
    BY <2>1 DEF IInv, TermKept
  <2>2. CASE Len(readers) # 0
    <3>1. readers[1] \in Proc /\ readers[1] # p
      BY <1>3, <2>2 DEF IInv, ReadersOK
    <3> QED BY <1>1, <2>2, <3>1 DEF IInv, TermKept
  <2> QED BY <2>1, <2>2
<1>6. SizeKept'
  BY DEF IInv, SizeKept
<1> QED BY <1>2, <1>4, <1>5, <1>6 DEF IInv

(* dev_tcgetattr.                                                          *)
LEMMA GetattrKeeps ==
    ASSUME IInv, NEW p \in Proc, dev_tcgetattr(p)
    PROVE  IInv'
<1>1. saved' = [saved EXCEPT ![p] = <<handle_tcgetattr(term)>>]
      /\ UNCHANGED <<term, win, place, readers, asked, orderly>>
  BY DEF dev_tcgetattr
<1> DEFINE q == handle_tcgetattr(term)
<1>2. q \in Qnx
  BY GetType DEF IInv, TypeInv
<1> HIDE DEF q
<1>3. saved' \in [Proc -> {<<>>} \cup {<<x>> : x \in Qnx}]
  BY <1>1, <1>2 DEF IInv, TypeInv, q
<1>4. TypeInv'
  BY <1>1, <1>3 DEF IInv, TypeInv
<1>5. ReadersOK' /\ TermKept' /\ SizeKept'
  BY <1>1 DEF IInv, ReadersOK, TermKept, SizeKept
<1> QED BY <1>4, <1>5 DEF IInv

(* dev_tcsetattr, its first half.                                          *)
LEMMA SetattrKeeps ==
    ASSUME IInv, NEW p \in Proc, NEW raw \in BOOLEAN, dev_tcsetattr(p, raw)
    PROVE  IInv'
<1> DEFINE q == saved[p][1]
           state == IF raw THEN [q EXCEPT !.lflag = {}, !.cc[16] = 1] ELSE q
           r == [at |-> "set", was |-> term, update |-> <<state>>]
<1>1. /\ place[p] = User /\ place' = [place EXCEPT ![p] = r]
      /\ UNCHANGED <<term, win, saved, readers, asked, orderly>>
  BY DEF dev_tcsetattr, Start, MayStart, InUser
<1>2. q \in Qnx
  BY DEF dev_tcsetattr, IInv, TypeInv
<1> HIDE DEF q
<1>3. state \in Qnx
  <2> DEFINE c == [q.cc EXCEPT ![16] = 1]
  <2>1. c \in Cc
    BY <1>2 DEF Qnx, Cc
  <2>2. [q EXCEPT !.lflag = {}, !.cc[16] = 1] = [q EXCEPT !.lflag = {}, !.cc = c]
    BY <1>2 DEF Qnx
  <2> HIDE DEF c
  <2>3. [q EXCEPT !.lflag = {}, !.cc = c] \in Qnx
    BY <1>2, <2>1 DEF Qnx
  <2> QED BY <1>2, <2>2, <2>3
<1> HIDE DEF state
<1>4. PlaceOK(r) /\ r.at # "read"
  BY <1>3 DEF PlaceOK, IInv, TypeInv
<1> HIDE DEF r
<1> QED BY <1>1, <1>4, StartKeeps

(* dev_mode, its first half.                                               *)
LEMMA ModeKeeps ==
    ASSUME IInv, NEW p \in Proc, NEW mask, NEW wanted, dev_mode(p, mask, wanted)
    PROVE  IInv'
<1> DEFINE r == [at |-> "set", was |-> term, update |-> <<mask, wanted>>]
<1>1. /\ place[p] = User /\ place' = [place EXCEPT ![p] = r]
      /\ UNCHANGED <<term, win, saved, readers, asked, orderly>>
  BY DEF dev_mode, Start, MayStart, InUser
<1>2. PlaceOK(r) /\ r.at # "read"
  BY DEF PlaceOK, IInv, TypeInv
<1> HIDE DEF r
<1> QED BY <1>1, <1>2, StartKeeps

(* dev_term_size, its first half.                                          *)
LEMMA TermSizeKeeps ==
    ASSUME IInv, NEW p \in Proc, NEW cols, NEW rows, dev_term_size(p, cols, rows)
    PROVE  IInv'
<1> DEFINE r == [at |-> "size", was |-> win, cols |-> cols, rows |-> rows]
<1>1. /\ place[p] = User /\ place' = [place EXCEPT ![p] = r]
      /\ UNCHANGED <<term, win, saved, readers, asked, orderly>>
  BY DEF dev_term_size, Start, MayStart, InUser
<1>2. PlaceOK(r) /\ r.at # "read"
  BY DEF PlaceOK
<1> HIDE DEF r
<1> QED BY <1>1, <1>2, StartKeeps

(* dev_read, up to where it has the settings to put back.                  *)
LEMMA ReadKeeps ==
    ASSUME IInv, NEW p \in Proc, NEW timeout \in BOOLEAN, dev_read_unfiltered(p, timeout)
    PROVE  IInv'
<1> DEFINE to == approximate(term, timeout)
           r == [at |-> "approximate", old |-> term, to |-> to]
<1>1. /\ place[p] = User /\ place' = [place EXCEPT ![p] = r]
      /\ UNCHANGED <<term, win, saved, readers, asked, orderly>>
  BY DEF dev_read_unfiltered, Start, MayStart, InUser
<1>2. to \in Termios
  BY ApproximateType DEF IInv, TypeInv
<1> HIDE DEF to
<1>3. PlaceOK(r) /\ r.at # "read"
  BY <1>2 DEF PlaceOK, IInv, TypeInv
<1> HIDE DEF r
<1> QED BY <1>1, <1>3, StartKeeps

(* tcsetattr of the host: if nobody read and nothing came between, what is *)
(* set is the update of what was asked for.                                *)
LEMMA SetTermKeeps ==
    ASSUME IInv, NEW p \in Proc, SetTerm(p)
    PROVE  IInv'
<1> DEFINE r == place[p]
           u == Updated(r.was, r.update)
           v == Updated(asked.term, r.update)
           b == orderly.term /\ readers = <<>> /\ term = r.was
<1>1. /\ r.at = "set" /\ term' = u
      /\ place' = [place EXCEPT ![p] = User] /\ UNCHANGED <<win, saved, readers>>
  BY DEF SetTerm
<1>2. asked' = [asked EXCEPT !.term = v]
  BY DEF SetTerm
<1>3. orderly' = [orderly EXCEPT !.term = b]
  BY DEF SetTerm
<1>4. r.was \in Termios /\ (Len(r.update) = 1 => r.update[1] \in Qnx)
  BY <1>1 DEF IInv, TypeInv, PlaceOK
<1>5. u \in Termios
  BY <1>4, SetType, ModeType DEF Updated
<1>6. b /\ term = asked.term => u = v
  OBVIOUS
<1>7. \A q \in Proc : place'[q] = IF q = p THEN User ELSE place[q]
  BY <1>1 DEF IInv, TypeInv
<1>8. b \in BOOLEAN /\ (b => orderly.term /\ Len(readers) = 0)
  BY DEF IInv, TypeInv
<1> HIDE DEF u, v, b
<1>9. orderly' \in [term : BOOLEAN, win : BOOLEAN]
  BY <1>3, <1>8 DEF IInv, TypeInv
<1>10. orderly'.term = b /\ orderly'.win = orderly.win
  BY <1>3 DEF IInv, TypeInv
<1>11. DOMAIN asked' = {"term", "win"} /\ asked'.term = v /\ asked'.win = asked.win
  BY <1>2 DEF IInv, TypeInv
<1>12. TypeInv'
  BY <1>1, <1>5, <1>7, <1>9, <1>11 DEF IInv, TypeInv, PlaceOK, User
<1>13. ReadersOK'
  BY <1>1, <1>7 DEF IInv, ReadersOK, User
<1>14. TermKept'
  BY <1>1, <1>6, <1>8, <1>10, <1>11 DEF IInv, TermKept
<1>15. SizeKept'
  BY <1>1, <1>10, <1>11 DEF IInv, SizeKept
<1> QED BY <1>12, <1>13, <1>14, <1>15 DEF IInv

(* The new size: if none came between, it is the update of what was asked  *)
(* for.                                                                    *)
LEMMA SetSizeKeeps ==
    ASSUME IInv, NEW p \in Proc, SetSize(p)
    PROVE  IInv'
<1> DEFINE r == place[p]
           u == Resized(r.was, r.cols, r.rows)
           v == Resized(asked.win, r.cols, r.rows)
           b == orderly.win /\ win = r.was
<1>1. /\ r.at = "size" /\ win' = u
      /\ place' = [place EXCEPT ![p] = User] /\ UNCHANGED <<term, saved, readers>>
  BY DEF SetSize
<1>2. asked' = [asked EXCEPT !.win = v]
  BY DEF SetSize
<1>3. orderly' = [orderly EXCEPT !.win = b]
  BY DEF SetSize
<1>4. b /\ win = asked.win => u = v
  OBVIOUS
<1>5. \A q \in Proc : place'[q] = IF q = p THEN User ELSE place[q]
  BY <1>1 DEF IInv, TypeInv
<1>6. b \in BOOLEAN /\ (b => orderly.win)
  BY DEF IInv, TypeInv
<1> HIDE DEF u, v, b
<1>7. orderly' \in [term : BOOLEAN, win : BOOLEAN]
  BY <1>3, <1>6 DEF IInv, TypeInv
<1>8. orderly'.win = b /\ orderly'.term = orderly.term
  BY <1>3 DEF IInv, TypeInv
<1>9. DOMAIN asked' = {"term", "win"} /\ asked'.win = v /\ asked'.term = asked.term
  BY <1>2 DEF IInv, TypeInv
<1>10. TypeInv'
  BY <1>1, <1>5, <1>7, <1>9 DEF IInv, TypeInv, PlaceOK, User
<1>11. ReadersOK'
  BY <1>1, <1>5 DEF IInv, ReadersOK, User
<1>12. TermKept'
  <2>1. CASE Len(readers) = 0
    BY <1>1, <1>8, <1>9, <2>1 DEF IInv, TermKept
  <2>2. CASE Len(readers) # 0
    <3>1. readers[1] \in Proc /\ readers[1] # p
      BY <1>1, <2>2 DEF IInv, ReadersOK
    <3> QED BY <1>1, <1>5, <1>8, <1>9, <2>2, <3>1 DEF IInv, TermKept
  <2> QED BY <2>1, <2>2
<1>13. SizeKept'
  BY <1>1, <1>4, <1>6, <1>8, <1>9 DEF IInv, SizeKept
<1> QED BY <1>10, <1>11, <1>12, <1>13 DEF IInv

(* set() of a dev_read: the first reader found what was asked for.         *)
LEMMA ReadWaitsKeeps ==
    ASSUME IInv, NEW p \in Proc, ReadWaits(p)
    PROVE  IInv'
<1> DEFINE r == place[p]
           s == [at |-> "read", old |-> r.old]
           b == orderly.term /\ term = r.old
<1>1. /\ r.at = "approximate" /\ term' = r.to
      /\ place' = [place EXCEPT ![p] = s]
      /\ readers' = Append(readers, p) /\ UNCHANGED <<win, saved, asked>>
  BY DEF ReadWaits
<1>2. orderly' = [orderly EXCEPT !.term = b]
  BY DEF ReadWaits
<1>3. r.old \in Termios /\ r.to \in Termios
  BY <1>1 DEF IInv, TypeInv, PlaceOK
<1>4. b \in BOOLEAN /\ (b => orderly.term /\ term = r.old)
  BY DEF IInv, TypeInv
<1>5. PlaceOK(s) /\ s.at = "read" /\ s.old = r.old
  BY <1>3 DEF PlaceOK
<1> HIDE DEF b, s
<1>6. \A q \in Proc : place'[q] = IF q = p THEN s ELSE place[q]
  BY <1>1 DEF IInv, TypeInv
<1>7. orderly' \in [term : BOOLEAN, win : BOOLEAN]
  BY <1>2, <1>4 DEF IInv, TypeInv
<1>8. orderly'.term = b /\ orderly'.win = orderly.win
  BY <1>2 DEF IInv, TypeInv
<1>9. TypeInv'
  BY <1>1, <1>3, <1>5, <1>6, <1>7 DEF IInv, TypeInv
<1>10. /\ readers \in Seq(Proc) /\ readers' \in Seq(Proc) /\ Len(readers) \in Nat
       /\ Len(readers') = Len(readers) + 1
       /\ \A i \in 1 .. Len(readers) : readers'[i] = readers[i] /\ readers[i] # p
       /\ readers'[Len(readers) + 1] = p
  BY <1>1 DEF IInv, ReadersOK
<1>11. ReadersOK'
  <2>1. \A i, j \in 1 .. Len(readers') : readers'[i] = readers'[j] => i = j
    BY <1>10 DEF IInv, ReadersOK
  <2>2. ASSUME NEW q \in Proc
        PROVE  place'[q].at = "read" <=> \E i \in 1 .. Len(readers') : readers'[i] = q
    <3>1. CASE q = p
      BY <1>5, <1>6, <1>10, <3>1
    <3>2. CASE q # p
      BY <1>6, <1>10, <3>2 DEF IInv, ReadersOK
    <3> QED BY <3>1, <3>2
  <2> QED BY <1>10, <2>1, <2>2 DEF ReadersOK
<1>12. TermKept'
  <2>1. CASE Len(readers) = 0
    <3>1. readers'[1] = p /\ Len(readers') # 0
      BY <1>10, <2>1
    <3>2. place'[p].old = r.old
      BY <1>5, <1>6
    <3> QED BY <1>1, <1>4, <1>8, <2>1, <3>1, <3>2 DEF IInv, TermKept
  <2>2. CASE Len(readers) # 0
    <3>1. readers'[1] = readers[1] /\ Len(readers') # 0 /\ readers[1] # p
          /\ readers[1] \in Proc
      BY <1>10, <2>2
    <3>2. place'[readers[1]] = place[readers[1]]
      BY <1>6, <3>1
    <3> QED BY <1>1, <1>4, <1>8, <2>2, <3>1, <3>2 DEF IInv, TermKept
  <2> QED BY <2>1, <2>2
<1>13. SizeKept'
  BY <1>1, <1>8 DEF IInv, SizeKept
<1> QED BY <1>9, <1>11, <1>12, <1>13 DEF IInv

(* Leaving a request keeps the queue of readers what it is.                *)
LEMMA LeaveKeeps ==
    ASSUME IInv, NEW p \in Proc, Leave(p)
    PROVE  /\ ReadersOK'
           /\ DOMAIN place' = Proc /\ \A q \in Proc : place'[q] = IF q = p THEN User ELSE place[q]
           /\ place[p].at # "read" => readers' = readers
           /\ place[p].at = "read" =>
                 /\ Len(readers) # 0 /\ Len(readers') = Len(readers) - 1
                 /\ Last(readers) = p =>
                       \A i \in 1 .. Len(readers') : readers'[i] = readers[i]
                                                     /\ readers[i] # p
<1>1. readers' = RemoveFirst(readers, p) /\ readers \in Seq(Proc)
      /\ place' = [place EXCEPT ![p] = User]
  BY DEF Leave, IInv, ReadersOK
<1>2. DOMAIN place' = Proc /\ \A q \in Proc : place'[q] = IF q = p THEN User ELSE place[q]
  BY <1>1 DEF IInv, TypeInv
<1>3. place'[p].at # "read"
  BY <1>2 DEF User
<1>4. CASE \A i \in 1 .. Len(readers) : readers[i] # p
  <2>1. place[p].at # "read"
    BY <1>4 DEF IInv, ReadersOK
  <2>2. readers' = readers
    BY <1>1, <1>4, RemoveFirstIs
  <2>3. ReadersOK'
    BY <1>2, <1>3, <1>4, <2>2 DEF IInv, ReadersOK
  <2> QED BY <1>2, <2>1, <2>2, <2>3
<1>5. CASE ~ \A i \in 1 .. Len(readers) : readers[i] # p
  <2>1. place[p].at = "read"
    BY <1>5 DEF IInv, ReadersOK
  <2>2. PICK j \in 1 .. Len(readers) :
           /\ readers[j] = p
           /\ readers' \in Seq(Proc)
           /\ Len(readers') = Len(readers) - 1
           /\ \A i \in 1 .. Len(readers) - 1 :
                 readers'[i] = IF i < j THEN readers[i] ELSE readers[i + 1]
    BY <1>1, <1>5, RemoveFirstIs
  <2>3. Len(readers) \in Nat /\ Len(readers) # 0
    BY <1>1, <2>2
  <2>4. \A i, k \in 1 .. Len(readers) : readers[i] = readers[k] => i = k
    BY DEF IInv, ReadersOK
  <2>5. \A i, k \in 1 .. Len(readers') : readers'[i] = readers'[k] => i = k
    BY <2>2, <2>3, <2>4
  <2>6. \A i \in 1 .. Len(readers') : readers'[i] # p
    BY <2>2, <2>3, <2>4
  <2>7. ASSUME NEW q \in Proc
        PROVE  place'[q].at = "read" <=> \E i \in 1 .. Len(readers') : readers'[i] = q
    <3>1. CASE q = p
      BY <1>3, <2>6, <3>1
    <3>2. CASE q # p
      <4>1. place'[q].at = "read" <=> \E i \in 1 .. Len(readers) : readers[i] = q
        BY <1>2, <3>2 DEF IInv, ReadersOK
      <4>2. ASSUME NEW i \in 1 .. Len(readers), readers[i] = q
            PROVE  \E k \in 1 .. Len(readers') : readers'[k] = q
        <5>1. i # j
          BY <2>2, <3>2, <4>2
        <5>2. CASE i < j
          <6>1. i \in 1 .. Len(readers') /\ readers'[i] = q
            BY <2>2, <2>3, <4>2, <5>2
          <6> QED BY <6>1
        <5>3. CASE i > j
          <6>1. i - 1 \in 1 .. Len(readers) - 1 /\ ~ (i - 1 < j) /\ (i - 1) + 1 = i
            BY <2>2, <2>3, <5>3
          <6>2. readers'[i - 1] = q
            BY <2>2, <4>2, <6>1
          <6> QED BY <2>2, <6>1, <6>2
        <5> QED BY <5>1, <5>2, <5>3
      <4>3. ASSUME NEW i \in 1 .. Len(readers'), readers'[i] = q
            PROVE  \E k \in 1 .. Len(readers) : readers[k] = q
        <5>1. i \in 1 .. Len(readers) /\ i + 1 \in 1 .. Len(readers)
          BY <2>2, <2>3
        <5>2. readers'[i] = readers[i] \/ readers'[i] = readers[i + 1]
          BY <2>2
        <5> QED BY <4>3, <5>1, <5>2
      <4> QED BY <4>1, <4>2, <4>3
    <3> QED BY <3>1, <3>2
  <2>8. ReadersOK'
    BY <2>2, <2>5, <2>7 DEF ReadersOK
  <2>9. ASSUME Last(readers) = p, NEW i \in 1 .. Len(readers')
        PROVE  readers'[i] = readers[i] /\ readers[i] # p
    <3>1. j = Len(readers)
      <4>1. readers[Len(readers)] = p /\ Len(readers) \in 1 .. Len(readers)
        BY <2>3, <2>9 DEF Last
      <4> QED BY <2>2, <2>4, <4>1
    <3>2. readers'[i] = readers[i]
      BY <2>2, <2>3, <3>1
    <3> QED BY <2>6, <3>2
  <2> QED BY <1>2, <2>1, <2>2, <2>3, <2>8, <2>9
<1> QED BY <1>4, <1>5

(* The end of a dev_read: the first reader puts back what was asked for,   *)
(* and a later one leaves that to it.                                      *)
LEMMA ReadEndsKeeps ==
    ASSUME IInv, NEW p \in Proc, ReadEnds(p)
    PROVE  IInv'
<1> DEFINE b == orderly.term /\ Last(readers) = p
<1>1. /\ place[p].at = "read" /\ term' = place[p].old /\ Leave(p)
      /\ UNCHANGED <<win, saved, asked>>
  BY DEF ReadEnds, Leave
<1>2. orderly' = [orderly EXCEPT !.term = b]
  BY DEF ReadEnds
<1>3. b \in BOOLEAN /\ (b => orderly.term /\ Last(readers) = p)
  BY DEF IInv, TypeInv
<1> HIDE DEF b
<1>4. orderly' \in [term : BOOLEAN, win : BOOLEAN]
  BY <1>2, <1>3 DEF IInv, TypeInv
<1>5. orderly'.term = b /\ orderly'.win = orderly.win
  BY <1>2 DEF IInv, TypeInv
<1>6. /\ ReadersOK'
      /\ DOMAIN place' = Proc /\ \A q \in Proc : place'[q] = IF q = p THEN User ELSE place[q]
      /\ Len(readers) # 0 /\ Len(readers') = Len(readers) - 1
      /\ Last(readers) = p =>
            \A i \in 1 .. Len(readers') : readers'[i] = readers[i] /\ readers[i] # p
  BY <1>1, LeaveKeeps
<1>7. place[p].old \in Termios
  BY <1>1 DEF IInv, TypeInv, PlaceOK
<1>8. TypeInv'
  BY <1>1, <1>4, <1>6, <1>7 DEF IInv, TypeInv, PlaceOK, User
<1>9. Len(readers) \in Nat /\ Len(readers') \in Nat /\ readers \in Seq(Proc)
  BY <1>6 DEF IInv, ReadersOK
<1>10. TermKept'
  <2> SUFFICES ASSUME b
               PROVE  IF Len(readers') = 0 THEN term' = asked'.term
                      ELSE place'[readers'[1]].old = asked'.term
    BY <1>5 DEF TermKept
  <2>1. place[readers[1]].old = asked.term
    BY <1>3, <1>6 DEF IInv, TermKept
  <2>2. CASE Len(readers') = 0
    <3>1. readers[1] = p
      <4>1. Len(readers) = 1
        BY <1>6, <1>9, <2>2
      <4> QED BY <1>3, <4>1 DEF Last
    <3> QED BY <1>1, <2>1, <2>2, <3>1
  <2>3. CASE Len(readers') # 0
    <3>1. 1 \in 1 .. Len(readers') /\ readers[1] \in Proc
      BY <1>6, <1>9, <2>3
    <3>2. readers'[1] = readers[1] /\ readers[1] # p
      BY <1>3, <1>6, <3>1
    <3> QED BY <1>1, <1>6, <2>1, <2>3, <3>1, <3>2
  <2> QED BY <2>2, <2>3
<1>11. SizeKept'
  BY <1>1, <1>5 DEF IInv, SizeKept
<1> QED BY <1>6, <1>8, <1>10, <1>11 DEF IInv

(* A guest that is killed in a dev_read puts nothing back; in another      *)
(* request nothing was changed yet.                                        *)
LEMMA KilledKeeps ==
    ASSUME IInv, NEW p \in Proc, Killed(p)
    PROVE  IInv'
<1> DEFINE b == orderly.term /\ place[p].at # "read"
<1>1. Leave(p) /\ UNCHANGED <<term, win, saved, asked>>
  BY DEF Killed, Leave
<1>2. orderly' = [orderly EXCEPT !.term = b]
  BY DEF Killed
<1>3. b \in BOOLEAN /\ (b => orderly.term /\ place[p].at # "read")
  BY DEF IInv, TypeInv
<1> HIDE DEF b
<1>4. orderly' \in [term : BOOLEAN, win : BOOLEAN]
  BY <1>2, <1>3 DEF IInv, TypeInv
<1>5. orderly'.term = b /\ orderly'.win = orderly.win
  BY <1>2 DEF IInv, TypeInv
<1>6. /\ ReadersOK'
      /\ DOMAIN place' = Proc /\ \A q \in Proc : place'[q] = IF q = p THEN User ELSE place[q]
      /\ place[p].at # "read" => readers' = readers
  BY <1>1, LeaveKeeps
<1>7. TypeInv'
  BY <1>1, <1>4, <1>6 DEF IInv, TypeInv, PlaceOK, User
<1>8. TermKept'
  <2> SUFFICES ASSUME b
               PROVE  IF Len(readers') = 0 THEN term' = asked'.term
                      ELSE place'[readers'[1]].old = asked'.term
    BY <1>5 DEF TermKept
  <2>1. readers' = readers
    BY <1>3, <1>6
  <2>2. CASE Len(readers) = 0
    BY <1>1, <1>3, <2>1, <2>2 DEF IInv, TermKept
  <2>3. CASE Len(readers) # 0
    <3>1. readers[1] \in Proc /\ readers[1] # p
      BY <1>3, <2>3 DEF IInv, ReadersOK
    <3> QED BY <1>1, <1>3, <1>6, <2>1, <2>3, <3>1 DEF IInv, TermKept
  <2> QED BY <2>2, <2>3
<1>9. SizeKept'
  BY <1>1, <1>5 DEF IInv, SizeKept
<1> QED BY <1>6, <1>7, <1>8, <1>9 DEF IInv

-----------------------------------------------------------------------------
(* The invariant holds at the start.                                       *)
LEMMA InitInvariant == ModesInit => IInv
<1> SUFFICES ASSUME ModesInit PROVE IInv
  OBVIOUS
<1>1. Cooked \in Termios
  <2> DEFINE c == [k \in Index |-> IF k \in {0, 6} THEN 1 ELSE 0]
  <2>1. c \in Cc
    BY DEF Cc
  <2>2. Cooked = [iflag |-> {"ICRNL", "IUTF8"}, oflag |-> {"OPOST", "ONLCR"},
                  lflag |-> LFlags, size |-> 8, flow |-> FALSE, cc |-> c]
    BY DEF Cooked
  <2> HIDE DEF c
  <2> QED BY <2>1, <2>2 DEF Termios
<1>2. [Cooked EXCEPT !.size = 7, !.flow = TRUE] \in Termios
  BY <1>1 DEF Termios
<1>3. term \in Termios
  BY <1>1, <1>2 DEF ModesInit
<1>4. \A p \in Proc : place[p] = User
  BY DEF ModesInit
<1>5. asked = [term |-> term, win |-> win] /\ orderly = [term |-> TRUE, win |-> TRUE]
  BY DEF ModesInit
<1>6. TypeInv
  <2>1. \A p \in Proc : PlaceOK(place[p])
    BY <1>4 DEF PlaceOK, User
  <2>2. orderly \in [term : BOOLEAN, win : BOOLEAN]
    BY <1>5
  <2>3. DOMAIN asked = {"term", "win"}
    BY <1>5
  <2>4. DOMAIN place = Proc
    BY DEF ModesInit
  <2>5. saved \in [Proc -> {<<>>} \cup {<<q>> : q \in Qnx}]
    BY DEF ModesInit
  <2> QED BY <1>3, <2>1, <2>2, <2>3, <2>4, <2>5 DEF TypeInv
<1>7. readers = <<>> /\ Len(readers) = 0
  BY DEF ModesInit
<1>8. ReadersOK
  BY <1>4, <1>7 DEF ReadersOK, User
<1>9. TermKept /\ SizeKept
  BY <1>5, <1>7 DEF TermKept, SizeKept
<1> QED BY <1>6, <1>8, <1>9 DEF IInv

(* Every step keeps the invariant.                                         *)
LEMMA StepInvariant == IInv /\ [ModesNext]_modeVars => IInv'
<1> SUFFICES ASSUME IInv, [ModesNext]_modeVars PROVE IInv'
  OBVIOUS
<1>1. CASE UNCHANGED modeVars
  <2>1. TypeInv' /\ ReadersOK'
    BY <1>1 DEF modeVars, IInv, TypeInv, PlaceOK, ReadersOK
  <2>2. TermKept' /\ SizeKept'
    BY <1>1 DEF modeVars, IInv, TermKept, SizeKept
  <2> QED BY <2>1, <2>2 DEF IInv
<1>2. CASE Finished
  BY <1>1, <1>2 DEF Finished
<1>3. ASSUME NEW p \in Proc, dev_tcgetattr(p)
      PROVE  IInv'
  BY <1>3, GetattrKeeps
<1>4. ASSUME NEW p \in Proc, NEW raw \in BOOLEAN, dev_tcsetattr(p, raw)
      PROVE  IInv'
  BY <1>4, SetattrKeeps
<1>5. ASSUME NEW p \in Proc, NEW m \in Modes, dev_mode(p, m[1], m[2])
      PROVE  IInv'
  BY <1>5, ModeKeeps
<1>6. ASSUME NEW p \in Proc, NEW s \in Dimensions, dev_term_size(p, s[1], s[2])
      PROVE  IInv'
  BY <1>6, TermSizeKeeps
<1>7. ASSUME NEW p \in Proc, NEW timeout \in BOOLEAN, dev_read_unfiltered(p, timeout)
      PROVE  IInv'
  BY <1>7, ReadKeeps
<1>8. ASSUME NEW p \in Proc, SetTerm(p) \/ SetSize(p) \/ ReadWaits(p)
      PROVE  IInv'
  BY <1>8, SetTermKeeps, SetSizeKeeps, ReadWaitsKeeps
<1>9. ASSUME NEW p \in Proc, ReadEnds(p) \/ Killed(p)
      PROVE  IInv'
  BY <1>9, ReadEndsKeeps, KilledKeeps
<1> QED BY <1>1, <1>2, <1>3, <1>4, <1>5, <1>6, <1>7, <1>8, <1>9 DEF ModesNext

(* IInv is an invariant of the specification.                              *)
THEOREM ModesInvariance == ModesSpec => []IInv
<1>1. ModesInit => IInv
  BY InitInvariant
<1>2. IInv /\ [ModesNext]_modeVars => IInv'
  BY StepInvariant
<1> QED BY <1>1, <1>2, PTL DEF ModesSpec

(* A guest can restore the attributes it saved with dev_tcgetattr          *)
(* whatever the terminal is set to, by whom and in the middle of what.     *)
THEOREM AttributesAlwaysRestored == ModesSpec => []AttributesRestored
<1>1. IInv => AttributesRestored
  <2> SUFFICES ASSUME IInv, NEW p \in Proc, saved[p] # <<>>
               PROVE  LET had == saved[p][1]
                          now == handle_tcgetattr(handle_tcsetattr(term, had))
                      IN  [now EXCEPT !.cc = had.cc] = had /\ now.cc[0] = had.cc[0]
    BY DEF AttributesRestored
  <2>1. term \in Termios /\ saved[p][1] \in Qnx
    BY DEF IInv, TypeInv
  <2> QED BY <2>1, SetThenGet
<1> QED BY <1>1, ModesInvariance, PTL

(* With no dev_read waiting, the terminal and its size are what the        *)
(* requests so far ask for, as long as they did not get in each other's    *)
(* way.                                                                    *)
THEOREM TerminalAlwaysAsAsked == ModesSpec => []TerminalAsAsked
<1>1. IInv => TerminalAsAsked
  BY DEF IInv, TermKept, SizeKept, TerminalAsAsked
<1> QED BY <1>1, ModesInvariance, PTL
=============================================================================
