----------------------------- MODULE MCRecords ----------------------------
(* Records for TLC: two models of one provider and one called through Bedrock, *)
(* and one candidate more than the judge is asked about.                       *)
EXTENDS Records

CONSTANTS m1, m2, bedrock

=============================================================================
