------------------------------ MODULE MCIntake ------------------------------
(* Small instances of Intake for TLC.                                      *)
EXTENDS Intake, TLC

CONSTANTS alert, again, unclear, interview, long, \* messages
          b1, b2, b3,                           \* boards
          a1, a2, t1, t2, own, fix, big,    \* postings
          r1, r2, r3

(* a1 and a2 come in the alert; b1 lists the URL of a1 under two more      *)
(* titles, b2 the position of a1 under the key own, b3 a posting too long. *)
MCPosition == [p \in Postings |-> IF p = own THEN a1 ELSE p]
MCUrl == [p \in Postings |-> IF p \in {a1, t1, t2} THEN "url"
                             ELSE IF p \in {own, fix, big} THEN NoUrl ELSE p]
MCCompany == [p \in Postings |-> IF p \in {a1, a2, own} THEN "ACME" ELSE "ALTO"]
MCVerdict == [p \in Postings |-> IF p = a2 THEN "OWNER_REVIEW" ELSE "ACCEPT"]
MCKind == [m \in Messages |-> CASE m = alert -> "alert"
                                [] m = unclear -> "unclear"
                                [] OTHER -> "INTERVIEW"]
MCThread == [m \in Messages |-> IF m = again THEN interview ELSE m]
MCAbout == [m \in Messages |-> IF m = again THEN {a1} ELSE {}]
MCCorrection == [m \in Messages |-> fix]
MCDigest == [u \in Messages \union Campaigns |->
               CASE u = alert -> <<a1, a2>>
                 [] u = b1 -> <<t1, t2>>
                 [] u = b2 -> <<own>>
                 [] u = b3 -> <<big>>
                 [] OTHER -> <<>>]
MCMailbox == <<alert, again, unclear, interview>>
MCLongMailbox == <<alert, again, unclear, interview, long>>
MCMaxCrashes == <<1, 0, 0>>
MCNoCrashes == <<0>>
MCBoards == <<b1, b2>>
MCThreeBoards == <<b1, b3, b2>>
MCMay == [r \in Requests |->
            CASE r = r1 -> {"all", "gmail"}
              [] r = r2 -> {"sync", "discover"}
              [] r = r3 -> {"approve", "correct", "reject", "confirm"}]
=============================================================================
