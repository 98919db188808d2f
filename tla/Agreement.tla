---------------------------- MODULE Agreement ----------------------------
(* What a negotiation promises: a contract binds both parties to one point  *)
(* that each has signed, and a point is agreed before anyone signs it.      *)
(* Abandoning is possible at any time, even when both have signed.          *)
EXTENDS FiniteSets

CONSTANTS Party, NoPoint

VARIABLES result,   \* "open", "contract" or "aborted"
          agreed,   \* the point agreed on, or NoPoint
          signed    \* the parties that signed it

Init == result = "aborted" /\ agreed = NoPoint /\ signed = {}

Begin == /\ result # "open"
         /\ result' = "open" /\ agreed' = NoPoint /\ signed' = {}

Agree == /\ result = "open" /\ agreed = NoPoint
         /\ agreed' # NoPoint
         /\ UNCHANGED <<result, signed>>

Sign == /\ result = "open" /\ agreed # NoPoint
        /\ \E x \in Party \ signed : signed' = signed \cup {x}
        /\ UNCHANGED <<result, agreed>>

Bind == /\ result = "open" /\ signed = Party
        /\ result' = "contract"
        /\ UNCHANGED <<agreed, signed>>

Abandon == /\ result = "open"
           /\ result' = "aborted"
           /\ UNCHANGED <<agreed, signed>>

Next == Begin \/ Agree \/ Sign \/ Bind \/ Abandon

Spec == Init /\ [][Next]_<<result, agreed, signed>>
=============================================================================
