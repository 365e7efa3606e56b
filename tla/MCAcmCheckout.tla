--------------------------- MODULE MCAcmCheckout ---------------------------
(* Small instances of AcmCheckout: two members and one stranger of one      *)
(* program; the second project has no row.                                 *)
EXTENDS AcmCheckout

CONSTANTS ann, ben, eve, pc1, pc2, k1, k2, f2, DEMO, NEWP, s1, s2

MCMembers == {<<ann, DEMO>>, <<ben, DEMO>>, <<ann, NEWP>>}

\* Ann and Ben are both the users and the names they send.
Req(user, action, project, computer, key, file) ==
  [user |-> user, action |-> action, project |-> project, name |-> user,
   computername |-> computer, key |-> key, filename |-> file]

Anonymous(r) == [r EXCEPT !.name = Undefined, !.computername = Undefined]

\* Each handler by its usual caller and by the callers its guards single out.
MCRequests ==
  {Req(ann, "checkout", DEMO, pc1, k1, Undefined),
   Req(ben, "checkout", DEMO, pc2, Undefined, Undefined),
   Anonymous(Req(ben, "checkout", DEMO, pc2, k2, Undefined)),
   Req(ann, "checkin", DEMO, pc1, k1, f2),
   Req(ben, "checkin", DEMO, pc2, Undefined, Undefined),
   Req(ben, "discard", DEMO, pc2, Undefined, Undefined),
   Req(eve, "discard", DEMO, pc1, k2, Undefined),
   Req(ben, "revokecheckout", DEMO, Undefined, Undefined, Undefined),
   Anonymous(Req(ann, "reset", DEMO, Undefined, Undefined, Undefined)),
   Req(eve, "checkout", DEMO, pc2, k2, Undefined),
   Req(eve, "create", DEMO, pc2, k2, Undefined),
   Req(ann, "checkin", NEWP, pc1, "new", f2),
   Req(eve, "reset", DEMO, Undefined, Undefined, Undefined),
   Req(ann, "reset", NEWP, Undefined, Undefined, Undefined),
   Req(ann, "create", NEWP, pc1, k1, f2),
   Req(ann, "statuscheck", DEMO, Undefined, Undefined, Undefined),
   Req(ann, "unknown", DEMO, Undefined, Undefined, Undefined)}
=============================================================================
