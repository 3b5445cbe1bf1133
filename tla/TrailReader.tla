---------------------------- MODULE TrailReader ----------------------------
(***************************************************************************)
(* GET /v1/audit while the trail is being written: handleTail of           *)
(* internal/platform/trail reads the end of the file of FileSink with Tail *)
(* (internal/kernel/audit/tail.go).  AuditTrail says what becomes of       *)
(* events; this module says which of them a reader is shown.  The two      *)
(* share no name: AuditTrail_proof reasons about both.                     *)
(*                                                                         *)
(* The file is a sequence of cells, a fixed number of bytes each.  An      *)
(* event is Size[e] of them, the last its newline; the bytes of an event   *)
(* without its first cell, or with another event's on its line, are no     *)
(* JSON value.  A write may show up cell by cell, and may stop anywhere.   *)
(***************************************************************************)
EXTENDS Naturals, Sequences, FiniteSets

CONSTANTS Entry, Size, \* events, each recorded once, and their cells
          Window,      \* tailWindow
          LineCap,     \* tailLineCap
          MaxTail, DefaultLimit,
          Reader,      \* requests that read the trail
          Limit,       \* limits that a query may ask for, 0 one that is no number
          Unset        \* a query without a limit

ASSUME TrailReaderAssumption ==
  /\ Size \in [Entry -> Nat \ {0, 1}]
  /\ Window \in Nat \ {0} /\ LineCap \in Nat \ {0}
  /\ MaxTail \in Nat /\ DefaultLimit \in 1..MaxTail
  /\ Limit \subseteq Nat /\ Unset \notin Nat

VARIABLES
  cells,    \* audit.jsonl
  writing,  \* the event in Append, at most one: its mutex
  done,     \* how many cells of it are in the file
  begun,    \* events that Append has been called with
  stage,    \* where each reader stands in handleTail and Tail
  limit, size, answer, \* what it asks for, Stat's size, its events
  upto      \* history: where the file ended for it

sink       == <<cells, writing, done, begun>>
reader     == <<stage, limit, size, answer, upto>>
readerVars == <<sink, reader>>

-----------------------------------------------------------------------------
ReaderInit ==
  /\ cells = <<>> /\ writing = {} /\ done = 0 /\ begun = {}
  /\ stage = [r \in Reader |-> "idle"]
  /\ limit = [r \in Reader |-> 0] /\ size = [r \in Reader |-> 0]
  /\ answer = [r \in Reader |-> <<>>] /\ upto = [r \in Reader |-> 0]

-----------------------------------------------------------------------------
(* FileSink.Append.                                                        *)

Lock(e) ==
  /\ writing = {} /\ e \notin begun
  /\ writing' = {e} /\ begun' = begun \cup {e} /\ done' = 0
  /\ UNCHANGED <<cells, reader>>

Write ==
  \E e \in writing : \E n \in 1..(Size[e] - done) :
    /\ cells' = cells \o [i \in 1..n |-> [of |-> e, at |-> done + i]]
    /\ done' = done + n
    /\ UNCHANGED <<writing, begun, reader>>

\* The write and the sync have succeeded, or one of them has failed, anywhere.
Unlock ==
  /\ writing # {}
  /\ writing' = {} /\ done' = 0
  /\ UNCHANGED <<cells, begun, reader>>

-----------------------------------------------------------------------------
(* The lines between two places of the file, as the scanner sees them.     *)

Ends(i) == cells[i].at = Size[cells[i].of]

LineStarts(lo, hi) == {i \in lo..hi : i = lo \/ Ends(i - 1)}

\* The content of the line that starts at i: up to a newline or the end.
Content(i, hi) ==
  {j \in i..hi : \A k \in i..j : ~Ends(k)}

\* json.Unmarshal takes the content: an event from its first byte to its last.
Parses(i, hi) ==
  /\ cells[i].at = 1
  /\ Cardinality(Content(i, hi)) = Size[cells[i].of] - 1
  /\ \A j \in Content(i, hi) : cells[j].of = cells[i].of

TooLong(lo, hi) ==
  \E i \in LineStarts(lo, hi) : Cardinality(Content(i, hi)) >= LineCap

Found(lo, hi) == {i \in LineStarts(lo, hi) : Parses(i, hi)}

\* The n-th of a set of places, from the end.
FromEnd(S, n) == CHOOSE i \in S : Cardinality({j \in S : j > i}) = n - 1

Least(a, b) == IF a < b THEN a ELSE b

\* Mutant: the first lines of the window are kept and the last are cut.
OldestFirst(S, n) ==
  [m \in 1..Least(n, Cardinality(S)) |-> cells[FromEnd(S, Cardinality(S) + 1 - m)].of]

NewestFirst(S, n) ==
  [m \in 1..Least(n, Cardinality(S)) |-> cells[FromEnd(S, m)].of]

-----------------------------------------------------------------------------
(* handleTail and Tail.                                                    *)

\* limitOf.
Ask(r, raw) ==
  /\ stage[r] = "idle"
  /\ IF raw = Unset \/ raw \in 1..MaxTail
     THEN /\ stage' = [stage EXCEPT ![r] = "open"]
          /\ limit' = [limit EXCEPT ![r] = IF raw = Unset THEN DefaultLimit ELSE raw]
     ELSE /\ stage' = [stage EXCEPT ![r] = "invalid"]
          /\ UNCHANGED limit
  /\ UNCHANGED <<size, answer, upto, sink>>

\* Open and Stat.
Stat(r) ==
  /\ stage[r] = "open"
  /\ stage' = [stage EXCEPT ![r] = "scan"]
  /\ size' = [size EXCEPT ![r] = Len(cells)]
  /\ UNCHANGED <<limit, answer, upto, sink>>

\* Mutant: Seek is forgotten, and the whole file is read.
FromStart(r) == 1

\* Seek.
From(r) == IF size[r] > Window THEN size[r] - Window + 1 ELSE 1

\* The scanner reads on to wherever the file ends by then.
Scan(r) ==
  /\ stage[r] = "scan"
  /\ IF TooLong(From(r), Len(cells))
     THEN stage' = [stage EXCEPT ![r] = "unreadable"] /\ UNCHANGED answer
     ELSE /\ stage' = [stage EXCEPT ![r] = "answered"]
          /\ answer' = [answer EXCEPT ![r] =
               NewestFirst(Found(From(r), Len(cells)), limit[r])]
  /\ upto' = [upto EXCEPT ![r] = Len(cells)]
  /\ UNCHANGED <<limit, size, sink>>

\* The answer is sent; the reader may ask again.
Reply(r) ==
  /\ stage[r] \in {"answered", "invalid", "unreadable"}
  /\ stage' = [stage EXCEPT ![r] = "idle"]
  /\ limit' = [limit EXCEPT ![r] = 0] /\ size' = [size EXCEPT ![r] = 0]
  /\ answer' = [answer EXCEPT ![r] = <<>>] /\ upto' = [upto EXCEPT ![r] = 0]
  /\ UNCHANGED sink

-----------------------------------------------------------------------------
AppendStep == (\E e \in Entry : Lock(e)) \/ Write \/ Unlock

Read(r) == (\E raw \in Limit \cup {Unset} : Ask(r, raw)) \/ Stat(r) \/ Scan(r) \/ Reply(r)

ReaderNext == AppendStep \/ \E r \in Reader : Read(r)

ReaderSpec == ReaderInit /\ [][ReaderNext]_readerVars

-----------------------------------------------------------------------------
\* Where the whole content of an event is, from its first cell.
Places(e) == {i \in 1..Len(cells) : cells[i] = [of |-> e, at |-> 1]}
Place(e)  == CHOOSE i \in Places(e) : TRUE

\* The event has a line to itself, newline included, between two places.
HasLine(e, lo, hi) ==
  \E i \in lo..hi :
    /\ i + Size[e] - 1 <= hi
    /\ i = 1 \/ Ends(i - 1)
    /\ \A n \in 1..Size[e] : cells[i + n - 1] = [of |-> e, at |-> n]

\* A reader is shown no more events than it asked for, every one of them is in the
\* file from its first byte to its last, each once and the newest first; and an
\* event that had its own line in the window when the file was looked at is missing
\* only if as many newer ones are shown as were asked for, whatever is written or
\* torn meanwhile (Tail).
AnswerIsNewest == \A r \in Reader : stage[r] = "answered" =>
  LET a == answer[r] IN
  /\ Len(a) <= limit[r]
  /\ \A m \in 1..Len(a) :
       Cardinality({i \in 1..upto[r] : cells[i].of = a[m]}) >= Size[a[m]] - 1
  /\ \A m, n \in 1..Len(a) : m < n => Place(a[m]) > Place(a[n])
  /\ \A e \in Entry : HasLine(e, From(r), size[r]) =>
       \/ \E m \in 1..Len(a) : a[m] = e
       \/ Len(a) = limit[r] /\ \A m \in 1..Len(a) : Place(a[m]) > Place(e)

\* Append is over and has left the event without its newline.
Torn(e) ==
  /\ e \in begun \ writing
  /\ \A i \in 1..Len(cells) : cells[i] # [of |-> e, at |-> Size[e]]

\* A reader is refused the trail only over what the window of the file still shows:
\* an event written whole and too long for the scanner, or one whose write was torn.
\* The half line at which the window starts, the one being written where the file
\* ends, and whatever has left the window never hide the events in it (Tail).
UnreadableForAReason == \A r \in Reader : stage[r] = "unreadable" =>
  \E i \in 1..upto[r] :
    /\ i + Window > size[r]
    /\ Size[cells[i].of] > LineCap \/ Torn(cells[i].of)
=============================================================================
