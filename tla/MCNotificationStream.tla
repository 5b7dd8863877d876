----------------------- MODULE MCNotificationStream -----------------------
EXTENDS NotificationStream, TLC

CONSTANTS n1, n2, n3, c1

MCNotices == {n1, n2, n3}
MCClients == {c1}
=============================================================================
