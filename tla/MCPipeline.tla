----------------------------- MODULE MCPipeline -----------------------------
EXTENDS Pipeline
S == INSTANCE Sources
const_Texts == S!AllTexts
=============================================================================
