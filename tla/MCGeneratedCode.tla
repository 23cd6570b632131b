-------------------------- MODULE MCGeneratedCode --------------------------
EXTENDS GeneratedCode, ExtractedFlow, StagedFamilies
=============================================================================
