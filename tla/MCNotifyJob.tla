----------------------------- MODULE MCNotifyJob ------------------------------
EXTENDS NotifyJob
=============================================================================
