---------------------- MODULE MCForwardErrorCorrection ----------------------
EXTENDS ForwardErrorCorrection

=============================================================================
