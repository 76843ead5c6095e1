----------------------------- MODULE MCEndpoint -----------------------------
EXTENDS Endpoint

CONSTANTS old, new1, new2, indexer, searcher
============================================================================
