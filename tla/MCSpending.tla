----------------------------- MODULE MCSpending -----------------------------
EXTENDS Spending

\* Unconfirmed transactions whose rate is zero, 1 sat/vB and a rounding off it
\* on either side, and one of a spend in a hurry.
MCOriginals == {[fee |-> 0, weight |-> 440], [fee |-> 141, weight |-> 561],
                [fee |-> 142, weight |-> 564], [fee |-> 2821, weight |-> 1123],
                [fee |-> 110, weight |-> 437]}
=============================================================================
