------------------------------- MODULE Patch -------------------------------
(***************************************************************************)
(* The patch engine (apply_unified_diff of                                 *)
(* local-bridge/app/patch/patch_service.py).  An author writes a unified   *)
(* diff of a file line by line, as diff tools do, and knows the file that  *)
(* should come out; the engine reads the diff against the file it finds,   *)
(* which may have changed in the meantime.                                 *)
(***************************************************************************)
EXTENDS Naturals, Sequences

CONSTANTS
  Plain,        \* texts of lines
  Dashed,       \* texts of lines that begin with "-- "
  MaxFile,      \* bound: lines of a file
  MaxPatch      \* bound: lines of a patch

ASSUME PatchAssumption == MaxFile \in Nat /\ MaxPatch \in Nat

VARIABLES
  original,   \* the file the author sees
  patch,      \* the diff so far
  wanted,     \* the file that should come out
  at,         \* how many lines of the original the author has passed
  hunk,       \* where the open hunk begins in the diff, 0 outside of one
  claims      \* which lines the diff says it found, and where

patchVars == <<original, patch, wanted, at, hunk, claims>>

-----------------------------------------------------------------------------
Texts == Plain \cup Dashed
Files == UNION {[1..n -> Texts] : n \in 0..MaxFile}

(* A line of a diff: a header "@@ -start,count", or a tagged text.         *)
Header(start, count) == [tag |-> "header", text |-> "header", start |-> start, count |-> count]
Body(tag, text) == [tag |-> tag, text |-> text, start |-> 0, count |-> 0]

(* startswith(SKIPPED_PREFIXES): the removal of "-- x" reads "--- x".      *)
Skipped(line) == line.tag = "removed" /\ line.text \in Dashed

Reader == [out |-> << >>, cursor |-> 0, inside |-> FALSE, hunks |-> 0, ok |-> TRUE]
Refused(r) == [r EXCEPT !.ok = FALSE]

(* Slip: the header's line number is taken as it stands.                   *)
StartOfLate(line) == line.start

(* max(int(header) - 1, 0).                                                *)
StartOf(line) == IF line.start = 0 THEN 0 ELSE line.start - 1

(* A header: what lies between the hunks is copied.                        *)
Opened(file, r, line) ==
  IF StartOf(line) < r.cursor \/ StartOf(line) > Len(file) THEN Refused(r)
  ELSE [r EXCEPT !.out = @ \o SubSeq(file, r.cursor + 1, StartOf(line)),
                 !.cursor = StartOf(line), !.inside = TRUE, !.hunks = @ + 1]

(* Slip: context is copied from the diff and not compared.                 *)
BodyTrusting(file, r, line) ==
  IF line.tag = "added" THEN [r EXCEPT !.out = Append(@, line.text)]
  ELSE IF r.cursor >= Len(file) THEN Refused(r)
  ELSE IF line.tag = "context" THEN [r EXCEPT !.out = Append(@, line.text), !.cursor = @ + 1]
  ELSE [r EXCEPT !.cursor = @ + 1]

(* A line of a hunk: context and removals must be what the file has.       *)
BodyRead(file, r, line) ==
  IF line.tag = "added" THEN [r EXCEPT !.out = Append(@, line.text)]
  ELSE IF r.cursor >= Len(file) \/ file[r.cursor + 1] # line.text THEN Refused(r)
  ELSE IF line.tag = "context" THEN [r EXCEPT !.out = Append(@, line.text), !.cursor = @ + 1]
  ELSE [r EXCEPT !.cursor = @ + 1]

(* A skipped line ends the hunk; outside of one only headers may follow.   *)
ReadLine(file, r, line) ==
  IF ~r.ok THEN r
  ELSE IF line.tag = "header" THEN Opened(file, r, line)
  ELSE IF Skipped(line) THEN [r EXCEPT !.inside = FALSE]
  ELSE IF ~r.inside THEN Refused(r) ELSE BodyRead(file, r, line)

(* The engine after it has read the first lines of a diff.                 *)
ReadUpTo(file, diff) ==
  LET read[n \in 0..Len(diff)] == IF n = 0 THEN Reader ELSE ReadLine(file, read[n - 1], diff[n])
  IN read

(* apply_unified_diff: what is left of the file follows the last hunk.     *)
Applied(file, diff) ==
  LET r == ReadUpTo(file, diff)[Len(diff)] IN
  [ok |-> r.ok /\ r.hunks > 0, file |-> r.out \o SubSeq(file, r.cursor + 1, Len(file))]

-----------------------------------------------------------------------------
(* The author: how diff tools write a unified diff.                        *)

PatchInit ==
  /\ original \in Files /\ patch = << >> /\ wanted = << >>
  /\ at = 0 /\ hunk = 0 /\ claims = {}

Here == original[at + 1]
Room == Len(patch) < MaxPatch

(* A line between the hunks.                                               *)
Pass ==
  /\ hunk = 0 /\ at < Len(original)
  /\ at' = at + 1 /\ wanted' = Append(wanted, Here)
  /\ UNCHANGED <<original, patch, hunk, claims>>

(* The header is completed when the hunk is.                               *)
OpenHunk ==
  /\ hunk = 0 /\ Room
  /\ patch' = Append(patch, Header(at + 1, 0)) /\ hunk' = Len(patch) + 1
  /\ UNCHANGED <<original, wanted, at, claims>>

OldLine(tag) ==
  /\ hunk # 0 /\ Room /\ at < Len(original)
  /\ patch' = [Append(patch, Body(tag, Here)) EXCEPT ![hunk].count = @ + 1]
  /\ at' = at + 1 /\ claims' = claims \cup {<<at + 1, Here>>}
  /\ UNCHANGED <<original, hunk>>

WriteContext == OldLine("context") /\ wanted' = Append(wanted, Here)
WriteRemoval == OldLine("removed") /\ UNCHANGED wanted

WriteInsertion ==
  /\ hunk # 0 /\ Room
  /\ \E text \in Plain :
       patch' = Append(patch, Body("added", text)) /\ wanted' = Append(wanted, text)
  /\ UNCHANGED <<original, at, hunk, claims>>

(* A hunk that only inserts names the line before it: "@@ -5,0 +6 @@".     *)
CloseHunk ==
  /\ hunk # 0 /\ hunk < Len(patch) /\ hunk' = 0
  /\ patch' = IF patch[hunk].count = 0 THEN [patch EXCEPT ![hunk].start = @ - 1] ELSE patch
  /\ UNCHANGED <<original, wanted, at, claims>>

PatchNext == Pass \/ OpenHunk \/ WriteContext \/ WriteRemoval \/ WriteInsertion \/ CloseHunk
PatchSpec == PatchInit /\ [][PatchNext]_patchVars

Written == hunk = 0 /\ at = Len(original) /\ patch # << >>

-----------------------------------------------------------------------------
(* Properties.                                                             *)

(* A hunk that only inserts, anywhere but at the top of the file, and a    *)
(* removed line that reads as the header of a file.                        *)
Pointing == \E i \in DOMAIN patch : patch[i].tag = "header" /\ patch[i].count = 0 /\ patch[i].start > 0
Hiding == \E i \in DOMAIN patch : Skipped(patch[i])

(* A diff of the file applies to it and gives the file the author wanted,  *)
(* hunks, removals and insertions in any order; but for the two forms the  *)
(* engine reads differently from diff tools.                               *)
DiffGivesWanted ==
  Written /\ ~Pointing /\ ~Hiding => Applied(original, patch) = [ok |-> TRUE, file |-> wanted]

(* "Strict context verification": the diff applies to no file that does    *)
(* not have every line it says it found, at the very place, also if that   *)
(* file changed since the preview was shown.                               *)
StaleIsRefused ==
  Written /\ ~Hiding =>
    \A file \in Files :
      Applied(file, patch).ok =>
        \A c \in claims : c[1] <= Len(file) /\ file[c[1]] = c[2]

(* A diff that means something does that, or is refused.                   *)
PatchIsExact == DiffGivesWanted /\ StaleIsRefused
=============================================================================
