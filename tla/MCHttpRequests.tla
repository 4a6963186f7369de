---------------------------- MODULE MCHttpRequests -----------------------------
EXTENDS HttpRequests
=============================================================================
