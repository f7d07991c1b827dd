------------------------------ MODULE MCDoors -------------------------------
EXTENDS Doors
=============================================================================
