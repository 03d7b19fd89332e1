---------------------------- MODULE MCEngineRobot ----------------------------
EXTENDS EngineRobot, MCEngineSteps
=============================================================================
