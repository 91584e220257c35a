---------------------------- MODULE MCLifecycle ----------------------------
EXTENDS Lifecycle
=============================================================================
