------------------------- MODULE MCMeetingSessions -------------------------
EXTENDS MeetingSessions

\* Every session is about the same meeting.
SameMeeting == [s \in Sessions |-> None]

\* One claim more than the attempts for one session; the others stay planned.
First == CHOOSE s \in Sessions : TRUE
OnceMore == [s \in Sessions |-> IF s = First THEN MaxAttempts + 1 ELSE 0]

\* Every session where nothing goes wrong, one where something may.
OneBooked == [kind \in Mishaps |-> IF kind = "none" THEN Sessions ELSE {First}]
=============================================================================
