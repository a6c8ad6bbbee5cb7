------------------------------- MODULE MCRoc -------------------------------
EXTENDS Roc

Budget(r, s, c) == [req |-> r, scan |-> s, crash |-> c]

\* Three requests; two and a scan; two and an error; one of each.
Mixed == {Budget(3, 0, 0), Budget(2, 1, 0), Budget(2, 0, 1), Budget(1, 1, 1)}
TwoAndError == {Budget(2, 0, 1)}
OneAndScan == {Budget(1, 1, 0)}
=============================================================================
