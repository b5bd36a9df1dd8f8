------------------------------ MODULE MCWebcam ------------------------------
EXTENDS Webcam
=============================================================================
