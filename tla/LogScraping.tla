------------------------------ MODULE LogScraping ------------------------------
(***************************************************************************)
(* Finding the WAF policy in the log of the AGIC pod.  AGIC logs its       *)
(* configuration as a block of consecutive lines that carry one of two     *)
(* prefixes; the log is read while AGIC goes on writing it, so it may end  *)
(* anywhere.                                                               *)
(*                                                                         *)
(* A line is Plain if it carries neither prefix, else what follows the     *)
(* prefix: Open and Close are the braces around the configuration, any     *)
(* other line is a member, in one of WAFPolicyIDs when it names the policy.*)
(***************************************************************************)
EXTENDS Sequences, Integers, FiniteSets, SequencesExt

CONSTANT WAFPolicyIDs

Plain == "plain"
Open  == "{"
Close == "}"
NoID  == ""

(* A line that names the policy is neither plain nor a brace.                *)
ASSUME MembersAssumption == WAFPolicyIDs \intersect {Plain, Open, Close, NoID} = {}

(* Seeded fault: the first configuration block of the log is kept.          *)
ScanFirst(lines) ==
  LET scan[n \in 0 .. Len(lines)] ==
        IF n = 0 THEN [current |-> <<>>, lastBlock |-> <<>>]
        ELSE IF lines[n] # Plain
          THEN [scan[n - 1] EXCEPT !.current = Append(@, lines[n])]
        ELSE IF scan[n - 1].current # <<>> /\ scan[n - 1].lastBlock = <<>>
          THEN [current |-> <<>>, lastBlock |-> scan[n - 1].current]
        ELSE [scan[n - 1] EXCEPT !.current = <<>>]
  IN  scan[Len(lines)]

(* The loop over the lines: a block becomes the last block only when a line *)
(* that does not belong to it follows.                                      *)
Scan(lines) ==
  LET scan[n \in 0 .. Len(lines)] ==
        IF n = 0 THEN [current |-> <<>>, lastBlock |-> <<>>]
        ELSE IF lines[n] # Plain
          THEN [scan[n - 1] EXCEPT !.current = Append(@, lines[n])]
        ELSE IF scan[n - 1].current # <<>>
          THEN [current |-> <<>>, lastBlock |-> scan[n - 1].current]
        ELSE scan[n - 1]
  IN  scan[Len(lines)]

(* The log ends inside its first block: lastBlock[-1] is looked at.         *)
ScrapePanics(lines) ==
  Scan(lines).current # <<>> /\ Scan(lines).lastBlock = <<>>

(* A block the log ends in replaces the last one if that was complete; the  *)
(* opening brace is put back where AGIC does not log it.                    *)
ConfigBlock(lines) ==
  LET s     == Scan(lines)
      block == IF s.current # <<>> /\ Last(s.lastBlock) = Close
                 THEN s.current ELSE s.lastBlock
  IN  IF block # <<>> /\ Head(block) \notin {Open, Close}
        THEN <<Open>> \o block ELSE block

(* json.Unmarshal accepts one object, and yields the ID of its policy if it *)
(* has one, the last if it has several.                                     *)
ValidJSON(block) ==
  /\ Len(block) >= 2
  /\ Head(block) = Open
  /\ Last(block) = Close
  /\ \A i \in 2 .. Len(block) - 1 : block[i] \notin {Open, Close}

PolicyID(block) ==
  LET named == {i \in DOMAIN block : block[i] \in WAFPolicyIDs}
  IN  IF named = {} THEN NoID ELSE block[Max(named)]
=============================================================================
