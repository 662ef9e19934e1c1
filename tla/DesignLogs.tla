----------------------------- MODULE DesignLogs -----------------------------
(***************************************************************************)
(* One append-only log of a design session: chat.jsonl, a thread's file or *)
(* comments.jsonl, a record to a line.  An append may be cut short by a    *)
(* crash or a full disk; the readers tell the torn tail from other damage  *)
(* by the newline that is missing at the end of the file.                  *)
(***************************************************************************)
EXTENDS Naturals, Sequences, SequencesExt

CONSTANT MaxRows   \* bound: records appended

VARIABLES
  kind,    \* which of the logs this is
  rows,    \* its lines: a record, or what cannot be parsed
  ends,    \* the file ends with a newline
  said,    \* how many records have been appended or tried
  acked,   \* history: the records whose append returned
  glued    \* history: an append followed one that had been cut short

vars == <<kind, rows, ends, said, acked, glued>>

LogBounds == MaxRows \in Nat \ {0}

Record == 1..MaxRows
Garbled == 0
Throws == {Garbled}

TypeOK ==
  /\ kind \in {"chat", "thread", "comments"}
  /\ rows \in Seq(Record \union {Garbled}) /\ ends \in BOOLEAN
  /\ said \in 0..MaxRows /\ acked \subseteq 1..said /\ glued \in BOOLEAN

Init ==
  /\ kind \in {"chat", "thread", "comments"}
  /\ rows = <<>> /\ ends = TRUE
  /\ said = 0 /\ acked = {} /\ glued = FALSE

(* appendFile writes the record and its newline behind whatever is there:  *)
(* behind a torn tail it becomes part of the torn line.                    *)
Outcome == {"whole", "noNewline", "cut"}

appendFile(outcome) ==
  /\ said < MaxRows /\ said' = said + 1
  /\ rows' = IF ends THEN Append(rows, IF outcome = "cut" THEN Garbled ELSE said')
                     ELSE Append(Front(rows), Garbled)
  /\ ends' = (outcome = "whole")
  /\ acked' = IF outcome = "whole" THEN acked \union {said'} ELSE acked
  /\ glued' = (glued \/ ~ends)
  /\ UNCHANGED kind

appendChatMessage == kind = "chat" /\ \E o \in Outcome : appendFile(o)
appendThreadMessage == kind = "thread" /\ \E o \in Outcome : appendFile(o)
appendComment == kind = "comments" /\ \E o \in Outcome : appendFile(o)

Next == appendChatMessage \/ appendThreadMessage \/ appendComment

Spec == Init /\ [][Next]_vars

-----------------------------------------------------------------------------
isTornTail_anyLine(i) == ~ends

isTornTail(i) == ~ends /\ i = Len(rows)

(* What a reader returns, in the order of the lines: here, which records.  *)
Parsed == {rows[i] : i \in DOMAIN rows} \ {Garbled}

(* A line that cannot be parsed surfaces, unless it is the torn tail. *)
readChatMessages ==
  IF \E i \in DOMAIN rows : rows[i] = Garbled /\ ~isTornTail(i)
  THEN Throws ELSE Parsed

readThreadMessages == readChatMessages

(* A comment that cannot be parsed is skipped, wherever it is. *)
readComments == Parsed

messages ==
  CASE kind = "chat" -> readChatMessages
    [] kind = "thread" -> readThreadMessages
    [] kind = "comments" -> readComments

(* What was acknowledged is read back, after a crash in the middle of an   *)
(* append too (comments.ts, "survive a crash mid-write").  Only an append  *)
(* that follows a torn one is lost with it: the chat and the threads are   *)
(* unreadable from then on, rather than short of a message; the comments   *)
(* are short of one.                                                       *)
LogReadBack ==
  \/ acked \subseteq messages
  \/ glued /\ (messages = Throws \/ kind = "comments")

=============================================================================
