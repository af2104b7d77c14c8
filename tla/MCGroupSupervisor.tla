-------------------------- MODULE MCGroupSupervisor --------------------------
EXTENDS GroupSupervisor
=============================================================================
