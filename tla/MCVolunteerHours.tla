--------------------------- MODULE MCVolunteerHours ---------------------------
EXTENDS VolunteerHours

OneHour == [e \in Entries |-> 1]
Corrections == {-2}

\* A rule that hours meet, one that no volunteer meets and one for hand only.
SomeRules ==
    {[level |-> 1, hours |-> 1, completed |-> 0, score |-> 1, manual |-> FALSE],
     [level |-> 1, hours |-> 0, completed |-> 1, score |-> 0, manual |-> FALSE],
     [level |-> 1, hours |-> 0, completed |-> 0, score |-> 0, manual |-> TRUE]}
=============================================================================
