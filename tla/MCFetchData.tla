---------------------------- MODULE MCFetchData -----------------------------
EXTENDS FetchData
=============================================================================
