----------------------------- MODULE MCLLMReview -----------------------------
EXTENDS LLMReview

CONSTANTS c1, f1, f2, f3
=============================================================================
