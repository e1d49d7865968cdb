--------------------------- MODULE MCModuleAnalysis ---------------------------
EXTENDS ModuleAnalysis
=============================================================================
