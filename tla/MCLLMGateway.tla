---------------------------- MODULE MCLLMGateway ----------------------------
EXTENDS LLMGateway, TLC
=============================================================================
