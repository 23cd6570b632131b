---------------------------- MODULE MCExtraction ----------------------------
EXTENDS Reexecution, ExtractedFlow, StagedFamilies
=============================================================================
