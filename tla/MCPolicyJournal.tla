--------------------------- MODULE MCPolicyJournal ---------------------------
(* The three domains of the kernel; ZMID has the audit file as its auxiliary.  *)
EXTENDS PolicyJournal

CONSTANTS zgdb, zcap, zmid

MCDomains == {zgdb, zcap, zmid}

MCAudited == {zmid}
=============================================================================
