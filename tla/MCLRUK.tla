------------------------------- MODULE MCLRUK -------------------------------
EXTENDS LRUKReplacerLog, LRUKScan
=============================================================================
