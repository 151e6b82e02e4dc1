----------------------------- MODULE CommitLog -----------------------------
(***************************************************************************)
(* What the fpindex changelog promises to a consumer that tails it with    *)
(* "WHERE id > cursor ORDER BY id" (acoustid/tables.py, the comments above *)
(* fpindex_changelog and fpindex_meta), and nothing about how the promise  *)
(* is kept.  No transaction, lock, partition or calendar is visible here.  *)
(*                                                                         *)
(*   - an entry that becomes visible has a position above every visible    *)
(*     entry and above the floor, so a cursor never has to look back;      *)
(*   - the floor is the highest position given up on: it only rises, and   *)
(*     only to the position of an entry that is, at that moment, there;    *)
(*   - entries disappear only when they are at or below the floor.         *)
(***************************************************************************)
EXTENDS Naturals

VARIABLES
  entries,  \* positions a reader can see
  floor     \* the one-row watermark table: {} or {position}

logVars == <<entries, floor>>

LogInit == entries = {} /\ floor = {}

Append ==
  \E id \in entries' :
    /\ \A e \in entries \cup floor : e < id
    /\ entries' = entries \cup {id}
    /\ UNCHANGED floor

RaiseFloor ==
  \E id \in entries :
    /\ \A d \in floor : d < id
    /\ floor' = {id}
    /\ UNCHANGED entries

Forget ==
  /\ entries' \subseteq entries
  /\ \A e \in entries \ entries' : \E d \in floor : e <= d
  /\ UNCHANGED floor

LogNext == Append \/ RaiseFloor \/ Forget

LogSpec == LogInit /\ [][LogNext]_logVars
=============================================================================
