---------------------------- MODULE MCUbxConfig ----------------------------
EXTENDS UbxConfig
CONSTANTS stationary, airborne, t1, t2, few
MCModels == {stationary, airborne}
MCTimeouts == {t1, t2}
MCSats == {few}
=============================================================================
