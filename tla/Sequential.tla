----------------------------- MODULE Sequential -----------------------------
(***************************************************************************)
(* The intersection kernels, which a comper calls within one step, the     *)
(* file streams and gquery's join side by side: each runs within one       *)
(* thread.                                                                 *)
(***************************************************************************)
EXTENDS Intersection

CONSTANTS BUF, WORD, Scalars, Lengths, MAX_ITEMS, G, Patterns, LITERAL_FIRST_ID
VARIABLES
  items, file, membuf, bufpos, offset, totpos, took, left, got, mode,
  pattern, stage, candidates, var_stack, matching_order, cur_depth, results

Stream == INSTANCE BinStream
Joins == INSTANCE BasicJoin

ASSUME StreamAssumption == Stream!Sizes
ASSUME JoinAssumption == Joins!Numbered

\* What was put is in the file and the buffer in order, and a closed file is all
\* of it (raw_bytes, bufflush and close of ifbinstream; BinStream says more).
WrittenInOrder == Stream!WrittenInOrder

\* What is read back is what was put, and the end is seen where it is (raw_bytes
\* and eof of ofbinstream; BinStream says more).
ReadBack == Stream!ReadBack

\* gquery's answers to a basic pattern are its matches in the data
\* (Database::join; BasicJoin says more).
AnswersAreTheMatches == stage # "none" => Joins!AnswersAreTheMatches
=============================================================================
