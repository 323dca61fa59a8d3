------------------------------- MODULE Memory -------------------------------
(***************************************************************************)
(* The decisions of a project (local-bridge/app/memory): decisions.md is a *)
(* document that people read and that is only appended to; an index holds  *)
(* the number and title of each decision.  An approved request makes sure  *)
(* that the document exists, numbers its decision by what it reads there,  *)
(* appends it and then tells the index; nothing excludes another request.  *)
(***************************************************************************)
EXTENDS Naturals, Sequences, FiniteSets, SequencesExt

CONSTANTS
  Writers,     \* threads that run approved requests
  Cited,       \* the numbers that headings in appended text may have
  MaxEntries,  \* bound: requests run
  MaxUndone,   \* bound: stage rollbacks
  MaxKills     \* bound: crashes

ASSUME MemoryAssumption ==
  Cited \subseteq Nat /\ {MaxEntries, MaxUndone, MaxKills} \subseteq Nat

VARIABLES
  document,   \* the entries of decisions.md, or None
  index,      \* the decisions it knows of
  writer,     \* per thread: what it does
  begun,      \* requests so far, each with its number as its title
  captures,   \* the states of the document that rollback snapshots hold
  undone, kills,
  \* history variable: no guard reads it
  crowded     \* two requests, or a request and a rollback, were under way together

memoryVars == <<document, index, writer, begun, captures, undone, kills, crowded>>

-----------------------------------------------------------------------------
None == << >>       \* no such file
Header == [what |-> "header", number |-> 0, title |-> 0]

(* number: of the heading "## ADR-n", 0 when the entry has none.  A torn   *)
(* entry may have lost its heading or what follows.                        *)
Entry == [what: {"header", "decision", "text", "torn"}, number: Nat, title: 0..MaxEntries]
Row == [number: Nat, title: 1..MaxEntries]
WriterState == [at: {"free", "header", "number", "append", "index"},
                decides: BOOLEAN, number: Nat, title: 0..MaxEntries]
Free == [at |-> "free", decides |-> FALSE, number |-> 0, title |-> 0]

WriterAt(w, at) == writer[w].at = at
GoesOn(w, at) == writer' = [writer EXCEPT ![w].at = at]
Busy == {w \in Writers : ~WriterAt(w, "free")}

(* Slip: the decisions are counted.                                        *)
NextAdrCounts(doc) == 1 + Cardinality({i \in DOMAIN doc : doc[i].what = "decision"})

(* next_adr_id: whatever the heading is that has the highest number.       *)
NextAdr(doc) == 1 + Max({0} \cup {doc[i].number : i \in DOMAIN doc})

MemoryInit ==
  /\ document = None /\ index = {}
  /\ writer = [w \in Writers |-> Free]
  /\ begun = 0 /\ captures = {} /\ undone = 0 /\ kills = 0 /\ crowded = FALSE

-----------------------------------------------------------------------------
(* The rollback snapshot, then initialise: is the document there?          *)
BeginEntry(w) ==
  /\ WriterAt(w, "free") /\ begun < MaxEntries
  /\ begun' = begun + 1
  /\ \E decides \in BOOLEAN :
       writer' = [writer EXCEPT ![w] =
         [at |-> IF document = None THEN "header" ELSE IF decides THEN "number" ELSE "append",
          decides |-> decides, number |-> 0, title |-> begun + 1]]
  /\ captures' = captures \cup {document}
  /\ crowded' = (crowded \/ Busy # {})
  /\ UNCHANGED <<document, index, undone, kills>>

(* write_text, whatever is there by now.                                   *)
WriteHeader(w) ==
  /\ WriterAt(w, "header")
  /\ document' = <<Header>>
  /\ GoesOn(w, IF writer[w].decides THEN "number" ELSE "append")
  /\ UNCHANGED <<index, begun, captures, undone, kills, crowded>>

(* Slip: the row is added beside one with the same number.                 *)
Upserted(rows, row) == rows \cup {row}

(* insert_decision: the row of that number gets the new title.             *)
Inserted(rows, row) == {r \in rows : r.number # row.number} \cup {row}

(* Slip: the index is told as soon as there is a number.                   *)
NumberDecisionEarly(w) ==
  LET n == IF document = None THEN 1 ELSE NextAdr(document) IN
  /\ WriterAt(w, "number")
  /\ writer' = [writer EXCEPT ![w].at = "append", ![w].number = n]
  /\ index' = Inserted(index, [number |-> n, title |-> writer[w].title])
  /\ UNCHANGED <<document, begun, captures, undone, kills, crowded>>

(* next_adr_id reads the document.                                         *)
NumberDecision(w) ==
  /\ WriterAt(w, "number")
  /\ writer' = [writer EXCEPT ![w].at = "append",
                              ![w].number = IF document = None THEN 1 ELSE NextAdr(document)]
  /\ UNCHANGED <<document, index, begun, captures, undone, kills, crowded>>

(* Slip: the entry is written in place of what is there.                   *)
AppendedAnew(entry) == <<Header, entry>>

(* A document that is gone again is begun anew.                            *)
Appended(entry) == Append(IF document = None THEN <<Header>> ELSE document, entry)

(* The block is appended; text may hold headings of its own.               *)
AppendEntry(w) ==
  LET c == writer[w] IN
  /\ WriterAt(w, "append")
  /\ \/ /\ c.decides
        /\ document' = Appended([what |-> "decision", number |-> c.number, title |-> c.title])
        /\ GoesOn(w, "index")
     \/ /\ ~c.decides
        /\ \E n \in Cited :
             document' = Appended([what |-> "text", number |-> n, title |-> c.title])
        /\ writer' = [writer EXCEPT ![w] = Free]
  /\ UNCHANGED <<index, begun, captures, undone, kills, crowded>>

IndexDecision(w) ==
  /\ WriterAt(w, "index")
  /\ index' = Inserted(index, [number |-> writer[w].number, title |-> writer[w].title])
  /\ writer' = [writer EXCEPT ![w] = Free]
  /\ UNCHANGED <<document, begun, captures, undone, kills, crowded>>

(* A rolled back stage puts the document back as a snapshot has it; the    *)
(* index is not told.                                                      *)
UndoEntries ==
  /\ undone < MaxUndone /\ undone' = undone + 1
  /\ document' \in captures
  /\ crowded' = (crowded \/ Busy # {})
  /\ UNCHANGED <<index, writer, begun, captures, kills>>

(* A crash: of a block that was being appended, some may be there.         *)
Kill ==
  /\ kills < MaxKills /\ kills' = kills + 1
  /\ \/ UNCHANGED document
     \/ \E w \in Writers : \E n \in {0, writer[w].number} :
          /\ WriterAt(w, "append")
          /\ document' = Appended([what |-> "torn", number |-> n, title |-> writer[w].title])
  /\ writer' = [w \in Writers |-> Free]
  /\ UNCHANGED <<index, begun, captures, undone, crowded>>

MemoryNext ==
  \/ \E w \in Writers :
       BeginEntry(w) \/ WriteHeader(w) \/ NumberDecision(w) \/ AppendEntry(w) \/ IndexDecision(w)
  \/ UndoEntries \/ Kill

MemorySpec == MemoryInit /\ [][MemoryNext]_memoryVars

-----------------------------------------------------------------------------
(* Properties.                                                             *)

(* Type correctness, and the index has one row for a number.               *)
MemoryTypeOK ==
  /\ document \in Seq(Entry) /\ writer \in [Writers -> WriterState]
  /\ index \subseteq Row /\ \A r, s \in index : r.number = s.number => r = s
  /\ begun \in 0..MaxEntries /\ captures \subseteq Seq(Entry)
  /\ undone \in 0..MaxUndone /\ kills \in 0..MaxKills /\ crowded \in BOOLEAN

(* A decision's number is above that of every heading before it: through   *)
(* crashes and rollbacks, and whatever numbers the text cites, as long as  *)
(* requests follow each other.                                             *)
NumbersAscend ==
  ~crowded =>
    \A i, j \in DOMAIN document :
      i < j /\ document[j].what = "decision" => document[i].number < document[j].number

(* A decision that the index names is in the document, under its number    *)
(* and title, as long as requests follow each other and none was undone: a *)
(* crash may leave a decision out of the index but never put a wrong one   *)
(* there.                                                                  *)
IndexNamesDecisions ==
  ~crowded /\ undone = 0 =>
    \A r \in index : \E i \in DOMAIN document :
      document[i] = [what |-> "decision", number |-> r.number, title |-> r.title]

(* Memory is append-only: only an undone stage, or two requests that begin *)
(* the document at the same time, take something away.                     *)
OnlyAppends ==
  [][\/ IsPrefix(document, document')
     \/ undone' # undone \/ crowded]_memoryVars

(* Decisions have their numbers in order, and the index finds them.        *)
DecisionsAreFound ==
  /\ [](MemoryTypeOK /\ NumbersAscend /\ IndexNamesDecisions)
  /\ OnlyAppends
=============================================================================
