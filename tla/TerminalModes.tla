---------------------------- MODULE TerminalModes ---------------------------
(***************************************************************************)
(* The settings of the terminal that guests share (src/src/                *)
(* term_handler.cpp, termios_settings.cpp, qnx/term.h).  Attributes are    *)
(* translated between QNX's and the host's, and a dev_read without a       *)
(* terminal filter changes the host's for as long as it waits              *)
(* (TermiosSettings).  No request is atomic: the host is asked for what it *)
(* has, and told what to have, in two calls.  Requests of another guest    *)
(* may come in between, and a guest may be killed.                         *)
(*                                                                         *)
(* Flags of one field that are treated alike are represented by one of     *)
(* them.  Index 0 of c_cc stands for those that have the same number in    *)
(* both systems.                                                           *)
(***************************************************************************)
EXTENDS Naturals, SequencesExt, FiniteSets

CONSTANTS
    Proc,           \* guests
    Modes,          \* mask and mode of dev_mode requests
    Dimensions,     \* columns and rows of dev_term_size requests
    MaxRequests     \* bound on the requests of all guests

VARIABLES
    term,       \* the host's termios
    win,        \* the host's winsize
    saved,      \* per guest: what it got from dev_tcgetattr last, if any
    place,      \* per guest: where it is in a request
    requests,   \* how many requests there were
    readers,    \* guests in dev_read, in the order they came
    asked,      \* ghost: the settings and the size that were asked for
    orderly     \* ghost: whether requests got in each other's way since

modeVars == <<term, win, saved, place, requests, readers, asked, orderly>>

NoChange == 65535   \* a dimension dev_term_size leaves alone
User == [at |-> "user"]

Index == {0, 5, 6, 11, 16, 17}

(* CC_MAP: the number of a character in QNX and on the host (those of      *)
(* VEOL, VMIN and VTIME differ).                                           *)
CcMap == {<<0, 0>>, <<5, 11>>, <<16, 6>>, <<17, 5>>}

(* Flags that IFLAG_MAP, OFLAG_MAP and LFLAG_MAP name; IUTF8, XCASE and    *)
(* ONLCR are the host's alone.                                             *)
IFlags == {"ICRNL"}
OFlags == {"OPOST"}
LFlags == {"ISIG", "ICANON", "ECHO"}

(* A cooked terminal, as a shell leaves it.                                *)
Cooked ==
    [iflag |-> {"ICRNL", "IUTF8"}, oflag |-> {"OPOST", "ONLCR"},
     lflag |-> LFlags, size |-> 8, flow |-> FALSE,
     cc |-> [k \in Index |-> IF k \in {0, 6} THEN 1 ELSE 0]]

ModesInit ==
    /\ term \in {Cooked, [Cooked EXCEPT !.size = 7, !.flow = TRUE]}
    /\ win = <<80, 25>>
    /\ saved = [p \in Proc |-> <<>>]
    /\ place = [p \in Proc |-> User]
    /\ requests = 0
    /\ readers = <<>>
    /\ asked = [term |-> term, win |-> win]
    /\ orderly = [term |-> TRUE, win |-> TRUE]

-----------------------------------------------------------------------------
(* CFLAG_MAP goes through CSIZE and then each size as if it were a flag:   *)
(* the last, CS8, has the bits of all others.                              *)
MapSize(size) == IF size = 5 THEN 5 ELSE 8

(* handle_tcgetattr, into a cleared reply.                                 *)
handle_tcgetattr(t) ==
    [iflag |-> t.iflag \cap IFlags, oflag |-> t.oflag \cap OFlags,
     lflag |-> t.lflag \cap LFlags, size |-> MapSize(t.size), flow |-> t.flow,
     cc |-> [k \in Index |->
                IF \E m \in CcMap : m[1] = k
                THEN t.cc[(CHOOSE m \in CcMap : m[1] = k)[2]] ELSE 0]]

(* Mutant: flags are added and never taken away.                           *)
handle_tcsetattr_adds(t, q) ==
    [t EXCEPT !.iflag = @ \cup q.iflag, !.oflag = @ \cup q.oflag,
              !.lflag = @ \cup q.lflag, !.size = MapSize(q.size),
              !.flow = q.flow]

(* handle_tcsetattr: the settings t updated.  The indices of c_cc are      *)
(* exchanged: the host's character number m[1] is set from QNX's m[2].     *)
handle_tcsetattr(t, q) ==
    [iflag |-> (t.iflag \ IFlags) \cup q.iflag,
     oflag |-> (t.oflag \ OFlags) \cup q.oflag \cup {"ONLCR"},
     lflag |-> (t.lflag \ LFlags) \cup q.lflag,
     size |-> MapSize(q.size), flow |-> q.flow,
     cc |-> [k \in Index |->
                IF \E m \in CcMap : m[1] = k
                THEN q.cc[(CHOOSE m \in CcMap : m[1] = k)[2]] ELSE t.cc[k]]]

(* dev_mode: the four modes are cleared whatever the mask.  DEV_ISIG and   *)
(* DEV_OPOST are put into c_lflag as they are, where the host has XCASE    *)
(* and ECHO, and to clear OPOST there is to clear ISIG.                    *)
Mode(t, mask, mode) ==
    LET on == mask \cap mode
        l == (t.lflag \ LFlags)
               \cup (IF "ECHO" \in on THEN {"ECHO"} ELSE {})
               \cup (IF "EDIT" \in on THEN {"ICANON"} ELSE {})
               \cup (IF "ISIG" \in on THEN {"XCASE"} ELSE {})
               \cup (IF "OPOST" \in on THEN {"ECHO"} ELSE {})
    IN  [t EXCEPT !.iflag = IF "EDIT" \in mask THEN @ \ {"ICRNL"} ELSE @,
                  !.oflag = @ \ {"OPOST"},
                  !.lflag = l]

(* TermiosSettings::approximate: a timeout takes the place of the minimum  *)
(* and the time.  Which values they have does not matter here, only that   *)
(* they are not the terminal's own; TerminalFilter has the values.         *)
approximate(t, timeout) ==
    [t EXCEPT !.lflag = @ \ {"ICANON"},
              !.cc[5] = 1, !.cc[6] = IF timeout THEN 0 ELSE 1]

-----------------------------------------------------------------------------
InUser(p) == place[p] = User
MayStart(p) == InUser(p) /\ requests < MaxRequests
Start(p, request) ==
    /\ place' = [place EXCEPT ![p] = request]
    /\ requests' = requests + 1

(* The reply is kept by the guest.                                         *)
dev_tcgetattr(p) ==
    /\ MayStart(p)
    /\ saved' = [saved EXCEPT ![p] = <<handle_tcgetattr(term)>>]
    /\ requests' = requests + 1
    /\ UNCHANGED <<term, win, place, readers, asked, orderly>>

(* The guest puts back what it got, or a raw variant of it.  tcgetattr of  *)
(* the host comes first, tcsetattr is a step of its own (SetTerm).         *)
dev_tcsetattr(p, raw) ==
    /\ MayStart(p)
    /\ saved[p] # <<>>
    /\ LET q == saved[p][1]
           state == IF raw THEN [q EXCEPT !.lflag = {}, !.cc[16] = 1] ELSE q
       IN  Start(p, [at |-> "set", was |-> term, update |-> <<state>>])
    /\ UNCHANGED <<term, win, saved, readers, asked, orderly>>

dev_mode(p, mask, mode) ==
    /\ MayStart(p)
    /\ Start(p, [at |-> "set", was |-> term, update |-> <<mask, mode>>])
    /\ UNCHANGED <<term, win, saved, readers, asked, orderly>>

Updated(t, u) == IF Len(u) = 1 THEN handle_tcsetattr(t, u[1])
                 ELSE Mode(t, u[1], u[2])

(* tcsetattr of the host at the end of a request.  What is set while a     *)
(* dev_read waits does not last: the read puts back what it found.         *)
SetTerm(p) ==
    LET r == place[p]
    IN  /\ r.at = "set"
        /\ term' = Updated(r.was, r.update)
        /\ asked' = [asked EXCEPT !.term = Updated(@, r.update)]
        /\ orderly' = [orderly EXCEPT !.term = @ /\ readers = <<>>
                                                 /\ term = r.was]
        /\ place' = [place EXCEPT ![p] = User]
        /\ UNCHANGED <<win, saved, readers, requests>>

(* dev_term_size, in two calls of the host: what the size was, and the new *)
(* one.  A request without a size to set only answers.                     *)
dev_term_size(p, cols, rows) ==
    /\ MayStart(p)
    /\ cols # NoChange \/ rows # NoChange
    /\ Start(p, [at |-> "size", was |-> win, cols |-> cols, rows |-> rows])
    /\ UNCHANGED <<term, win, saved, readers, asked, orderly>>

Resized(w, cols, rows) ==
    <<IF cols = NoChange THEN w[1] ELSE cols,
      IF rows = NoChange THEN w[2] ELSE rows>>

SetSize(p) ==
    LET r == place[p]
    IN  /\ r.at = "size"
        /\ win' = Resized(r.was, r.cols, r.rows)
        /\ asked' = [asked EXCEPT !.win = Resized(@, r.cols, r.rows)]
        /\ orderly' = [orderly EXCEPT !.win = @ /\ win = r.was]
        /\ place' = [place EXCEPT ![p] = User]
        /\ UNCHANGED <<term, saved, readers, requests>>

(* dev_read without a filter: the constructor of TermiosSettings keeps the *)
(* old settings, set() applies the temporary ones (ReadWaits).             *)
dev_read_unfiltered(p, timeout) ==
    /\ MayStart(p)
    /\ Start(p, [at |-> "approximate", old |-> term,
                 to |-> approximate(term, timeout)])
    /\ UNCHANGED <<term, win, saved, readers, asked, orderly>>

ReadWaits(p) ==
    LET r == place[p]
    IN  /\ r.at = "approximate"
        /\ term' = r.to
        /\ orderly' = [orderly EXCEPT !.term = @ /\ term = r.old]
        /\ readers' = Append(readers, p)
        /\ place' = [place EXCEPT ![p] = [at |-> "read", old |-> r.old]]
        /\ UNCHANGED <<win, saved, requests, asked>>

(* Guest p reads no longer.  Only the last one that came to read found     *)
(* what the one before it has set.                                         *)
Leave(p) ==
    /\ place' = [place EXCEPT ![p] = User]
    /\ readers' = RemoveFirst(readers, p)
    /\ UNCHANGED <<win, saved, requests, asked>>

(* Mutant: the settings are not put back.                                  *)
ReadEnds_leaves(p) ==
    /\ place[p].at = "read"
    /\ orderly' = [orderly EXCEPT !.term = @ /\ Last(readers) = p]
    /\ Leave(p)
    /\ UNCHANGED term

(* readv returned, with data, after the timeout or for a signal: the       *)
(* destructor of TermiosSettings puts the old settings back.               *)
ReadEnds(p) ==
    /\ place[p].at = "read"
    /\ term' = place[p].old
    /\ orderly' = [orderly EXCEPT !.term = @ /\ Last(readers) = p]
    /\ Leave(p)

(* A signal with its default action kills the guest in the middle of its   *)
(* request and the destructor does not run; another guest takes its place. *)
Killed(p) ==
    /\ ~ InUser(p)
    /\ orderly' = [orderly EXCEPT !.term = @ /\ place[p].at # "read"]
    /\ Leave(p)
    /\ UNCHANGED term

(* The bound on requests is not the program's.                             *)
Finished ==
    /\ requests = MaxRequests
    /\ \A p \in Proc : InUser(p)
    /\ UNCHANGED modeVars

ModesNext ==
    \/ \E p \in Proc :
          \/ dev_tcgetattr(p)
          \/ \E raw \in BOOLEAN : dev_tcsetattr(p, raw)
          \/ \E m \in Modes : dev_mode(p, m[1], m[2])
          \/ \E s \in Dimensions : dev_term_size(p, s[1], s[2])
          \/ \E timeout \in BOOLEAN : dev_read_unfiltered(p, timeout)
          \/ SetTerm(p) \/ SetSize(p)
          \/ ReadWaits(p) \/ ReadEnds(p) \/ Killed(p)
    \/ Finished

ModesSpec == ModesInit /\ [][ModesNext]_modeVars

-----------------------------------------------------------------------------
(* A guest that saved the attributes (dev_tcgetattr) can restore them      *)
(* (dev_tcsetattr) whatever the terminal has been set to meanwhile, by     *)
(* whom and in the middle of what, and what it then gets is what it had:   *)
(* all flags and the characters with the same number in both systems.      *)
(* VEOL, VMIN and VTIME are excepted (handle_tcsetattr exchanges the       *)
(* indices).                                                               *)
AttributesRestored ==
    \A p \in Proc : saved[p] # <<>> =>
        LET had == saved[p][1]
            now == handle_tcgetattr(handle_tcsetattr(term, had))
        IN  /\ [now EXCEPT !.cc = had.cc] = had
            /\ now.cc[0] = had.cc[0]

(* When nobody waits in a dev_read, the terminal is set the way the        *)
(* requests so far ask for, each applied to the result of the one before,  *)
(* however many reads changed it meanwhile.  This takes reads that overlap *)
(* to end in the reverse order, none to be killed, nothing to be set       *)
(* during one and no two updates to overlap.  The size is what was asked   *)
(* for last, dimension by dimension, unless two dev_term_size overlapped.  *)
TerminalAsAsked ==
    /\ readers = <<>> /\ orderly.term => term = asked.term
    /\ orderly.win => win = asked.win
=============================================================================
