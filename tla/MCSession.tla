----------------------------- MODULE MCSession -----------------------------
(***************************************************************************)
(* Small instances of Session.                                             *)
(***************************************************************************)
EXTENDS Session, TLC

CONSTANTS u1, u2

Start1(u, password, remember) ==
    [user |-> u, qr |-> FALSE, password |-> password, remember |-> remember]

\* two users, one with and one without --remember-password, QR and anonymous
AnyStart ==
    {Start1(u1, FALSE, TRUE), Start1(u1, TRUE, FALSE), Start1(u2, TRUE, TRUE),
     Start1(Nobody, FALSE, FALSE), [Start1(Nobody, FALSE, FALSE) EXCEPT !.qr = TRUE]}

Codes == {<<>>, <<"DeviceConfirmation", "EmailCode", "DeviceCode">>, <<"None">>}
=============================================================================
