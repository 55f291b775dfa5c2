-------------------------- MODULE MCServiceSupervisor --------------------------
EXTENDS ServiceSupervisor

CONSTANTS infra, api

MCOrder == <<infra, api>>
MCDependencies == [s \in Service |-> IF s = api THEN <<infra>> ELSE <<>>]
=============================================================================
