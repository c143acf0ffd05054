---------------------------- MODULE MCMappedFile ----------------------------
EXTENDS MappedFile

MCReactions == {"RETRY", "CANCEL"}
=============================================================================
