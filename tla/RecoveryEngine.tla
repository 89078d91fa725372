---------------------------- MODULE RecoveryEngine ----------------------------
(***************************************************************************)
(* The Encoding Recovery Engine of spec.md, section 4.1, in direct-bytes  *)
(* mode, together with the caller that shows its result (section 6).      *)
(* A caller hands the engine one byte string; the engine decodes it with  *)
(* every candidate of the ordered list under the replacement policy,      *)
(* scores each text by its ideographs, and the best candidate is the      *)
(* first one reaching the maximum score (section 3).  A best score of 0   *)
(* is the caller-level NoConfidentRecovery of sections 4 and 7, with the  *)
(* confidence threshold at 0.                                              *)
(*                                                                         *)
(* This is what a recovery script promises; DecodeCommitFinal is shown to *)
(* implement it.                                                           *)
(***************************************************************************)
EXTENDS Codecs

CONSTANTS
  Candidates,            \* ordered, non-empty sequence of codec names
  Inputs,                \* byte strings a caller may hand the engine
  None,
  NoConfidentRecovery

VARIABLES
  raw,       \* the RawBytes of the current call, None before it
  result     \* None, NoConfidentRecovery or [codec, text] of the best

vars == <<raw, result>>

(* Plausible-character count of candidate k on bytes b.                    *)
CandidateScore(k, b) == ChineseCount(Decode(Candidates[k], b))

(* Section 3: the best candidate is the earliest with the maximum count.  *)
BestIndex(b) ==
  LET top == Max({CandidateScore(k, b) : k \in DOMAIN Candidates})
  IN Min({k \in DOMAIN Candidates : CandidateScore(k, b) = top})

(* What the caller shows for bytes b.                                      *)
Outcome(b) ==
  LET k == BestIndex(b)
  IN IF CandidateScore(k, b) = 0 THEN NoConfidentRecovery
     ELSE [codec |-> Candidates[k], text |-> Decode(Candidates[k], b)]

(* The caller obtains the raw bytes (section 6).                          *)
Receive ==
  /\ raw = None
  /\ raw' \in Inputs
  /\ UNCHANGED result

(* recoverFromBytes, and the caller's confidence check.                   *)
Recover ==
  /\ raw # None
  /\ result = None
  /\ result' = Outcome(raw)
  /\ UNCHANGED raw

Init ==
  /\ raw = None
  /\ result = None

Next == Receive \/ Recover

(* A caller need not call the engine; once called, the engine answers:    *)
(* it is bounded by input length times list length (section 5).          *)
Spec == Init /\ [][Next]_vars /\ WF_vars(Recover)

(* The liveness half of Spec in a form a refinement can be checked        *)
(* against: bytes once received are answered.  Given [][Next]_vars it is  *)
(* equivalent to WF_vars(Recover), since Recover is enabled exactly when *)
(* raw # None /\ result = None and is the only step that sets result.    *)
Answers == (raw # None) ~> (result # None)

=============================================================================
