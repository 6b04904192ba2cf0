------------------------------ MODULE LineClientMC ------------------------------
EXTENDS LineClient
================================================================================
