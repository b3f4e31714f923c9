--------------------------- MODULE MCSideServices ---------------------------
EXTENDS SideServices

CONSTANTS r1, r2, r3, s1, s2, s3, c1, c2

MCRequests == {r1, r2, r3}
MCSyncs == {s1, s2, s3}
MCCallers == {c1, c2}
=============================================================================
