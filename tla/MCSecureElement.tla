--------------------------- MODULE MCSecureElement ---------------------------
(* The two elements of the PN547, and the .conf files that tell the paths    *)
(* through connectEE apart.                                                  *)
EXTENDS SecureElement

MCElements == <<"eSE", "UICC">>
MCThreads == {"service", "client"}
MCConfs == {[pipe |-> p[1], created |-> p[2], warm |-> p[3], sleep |-> p[4]] :
    p \in {<<"fixed", "fixed", TRUE, TRUE>>,
           <<None, "other", FALSE, FALSE>>, <<None, None, FALSE, TRUE>>}}
=============================================================================
